---- MODULE Spec2Model ----
(***************************************************************************)
(* Model of the local knowledge-graph backend of MiroFishOpt:              *)
(*   - the Neo4j graph store   (backend/app/services/local_graph_store.py) *)
(*   - the LLM extractor       (backend/app/services/local_graph_extractor.py) *)
(*   - the graph builder       (backend/app/services/local_graph_builder.py) *)
(*                                                                         *)
(* Text that the code trims, case-folds or concatenates is a sequence of   *)
(* one-character strings, so that str.strip, str.lower and f-strings are   *)
(* computed and not assumed.  Identifiers the code only compares (graph    *)
(* ids, chunk ids) are TLA+ strings.                                       *)
(***************************************************************************)
EXTENDS Integers, Sequences, FiniteSets, Bags, TLC

VARIABLES
    db,      \* the Neo4j database: Graph, Entity and Chunk nodes, HAS_CHUNK, MENTIONS and REL edges
    fresh,   \* number of random identifiers (uuid4) drawn so far
    pre,     \* the database as it was when the last store call was issued
    call,    \* the last store call: its name, its arguments and what it returned
    nops,    \* number of store calls issued so far
    vec,     \* the Qdrant chunk collection and the configured vector backend
    build    \* one build_graph_from_text invocation: its locals, its position, what it reported

vars == <<db, fresh, pre, call, nops, vec, build>>

(***************************************************************************)
(* Bounds of the model.                                                    *)
(***************************************************************************)
MaxOps == 6          \* store calls per behaviour of Spec
MaxEntityCalls == 2  \* upsert_entities calls per behaviour of SpecEntities
MaxBatch == 2        \* entities per upsert_entities call of SpecEntities
MaxRelCalls == 1     \* upsert_relations calls per behaviour of SpecRelations
MaxRelBatch == 3     \* relations per upsert_relations call of SpecRelations
MaxChunks == 2       \* chunks the splitter returns to a build of SpecBuild

(***************************************************************************)
(* Python values.                                                          *)
(***************************************************************************)
None == <<"<None>">>                 \* Python None / a Cypher null property
EmptyStr == <<>>                     \* ""
EmptyDict == <<>>                    \* {} ; a dict is the sequence of its (key, value) items

\* `x or default`: None, "" and {} are falsy.
PyOr(x, default) == IF x = None \/ x = <<>> THEN default ELSE x

\* Cypher COALESCE(a, b): the first argument that is not null.
Coalesce(a, b) == IF a # None THEN a ELSE b

IsSpace(c) == c = " "

ToLowerChar(c) ==
    CASE c = "A" -> "a"
      [] c = "B" -> "b"
      [] c = "C" -> "c"
      [] c = "T" -> "t"
      [] c = "U" -> "u"
      [] OTHER -> c

\* str.lower()
Lower(s) == [i \in 1..Len(s) |-> ToLowerChar(s[i])]

RECURSIVE LStrip(_)
LStrip(s) == IF s # <<>> /\ IsSpace(Head(s)) THEN LStrip(Tail(s)) ELSE s

RECURSIVE RStrip(_)
RStrip(s) ==
    IF s # <<>> /\ IsSpace(s[Len(s)]) THEN RStrip(SubSeq(s, 1, Len(s) - 1)) ELSE s

\* str.strip()
Strip(s) == RStrip(LStrip(s))

\* json.dumps of a dict, as its token sequence; json.loads back.
RECURSIVE JsonItems(_)
JsonItems(d) ==
    IF d = <<>> THEN <<>>
    ELSE <<d[1][1], ":", d[1][2]>> \o (IF Len(d) > 1 THEN <<",">> ELSE <<>>) \o JsonItems(Tail(d))

JsonDumps(d) == <<"{">> \o JsonItems(d) \o <<"}">>

RECURSIVE JsonParseItems(_)
JsonParseItems(toks) ==
    IF Len(toks) < 3 THEN <<>>
    ELSE << <<toks[1], toks[3]>> >> \o
         JsonParseItems(IF Len(toks) > 4 THEN SubSeq(toks, 5, Len(toks)) ELSE <<>>)

JsonLoads(j) == JsonParseItems(SubSeq(j, 2, Len(j) - 1))

(***************************************************************************)
(* Entity identity.                                                        *)
(***************************************************************************)
\* hashlib.sha1(base).hexdigest()[:16], taken as collision-free: a symbolic digest.
Sha1Hex16(base) == <<"sha1", base>>

\* The name as hashed were the case-folding left out.
NormalizeNameNoFold(name) == Strip(PyOr(name, EmptyStr))

\* The name as hashed were the trimming left out.
NormalizeNameNoStrip(name) == Lower(PyOr(name, EmptyStr))

\* (name or "").strip().lower()
NormalizeName(name) == Lower(Strip(PyOr(name, EmptyStr)))

\* _stable_entity_uuid: "ent_" + digest of "<project_id>:<entity_type>:<normalized name>".
stable_entity_uuid(project_id, entity_type, name) ==
    <<"ent_", Sha1Hex16(project_id \o <<":">> \o entity_type \o <<":">> \o NormalizeName(name))>>

\* LocalEntity.uuid
EntityUuid(ent) == stable_entity_uuid(ent.project_id, ent.entity_type, ent.name)

(***************************************************************************)
(* The database.  Entity nodes and REL edges are kept in storage order;    *)
(* an edge names its endpoints by their uuid property.                     *)
(***************************************************************************)
EmptyDb ==
    [graphs    |-> {},      \* (:Graph) nodes
     nodes     |-> <<>>,    \* (:Entity) nodes
     chunks    |-> {},      \* (:Chunk) nodes
     has_chunk |-> EmptyBag, \* (:Graph)-[:HAS_CHUNK]->(:Chunk): edges per <<graph_id, chunk_id>>
     mentions  |-> EmptyBag, \* (:Chunk)-[:MENTIONS]->(:Entity): edges per <<chunk_id, entity uuid>>
     rels      |-> <<>>]    \* (:Entity)-[:REL]->(:Entity)

\* _now_iso() of the store call being issued: successive calls read increasing clocks.
NowIso == <<"t", nops + 1>>

Range(seq) == {seq[i] : i \in 1..Len(seq)}

\* A node that MERGE has just created: only the merge key is set.
NewEntityNode(uuid) ==
    [uuid |-> uuid, project_id |-> None, graph_id |-> None, name |-> None,
     entity_type |-> None, summary |-> None, attributes_json |-> None, created_at |-> None]

\* The parameters upsert_entities binds for one entity.
EntityParams(ent, now) ==
    [uuid            |-> EntityUuid(ent),
     project_id      |-> ent.project_id,
     graph_id        |-> ent.graph_id,
     name            |-> ent.name,
     entity_type     |-> ent.entity_type,
     summary         |-> PyOr(ent.summary, EmptyStr),
     attributes_json |-> JsonDumps(PyOr(ent.attributes, EmptyDict)),
     created_at      |-> PyOr(ent.created_at, now)]

\* The SET clause of upsert_entities.
\* The SET clause were name and graph id first-writer-wins like created_at.
SetEntityKeepFirst(e, p) ==
    [uuid            |-> e.uuid,
     project_id      |-> p.project_id,
     graph_id        |-> IF e.created_at = None THEN p.graph_id ELSE e.graph_id,
     name            |-> IF e.created_at = None THEN p.name ELSE e.name,
     entity_type     |-> p.entity_type,
     summary         |-> Coalesce(p.summary, e.summary),
     attributes_json |-> Coalesce(p.attributes_json, e.attributes_json),
     created_at      |-> Coalesce(e.created_at, p.created_at)]

SetEntity(e, p) ==
    [uuid            |-> e.uuid,
     project_id      |-> p.project_id,
     graph_id        |-> p.graph_id,
     name            |-> p.name,
     entity_type     |-> p.entity_type,
     summary         |-> Coalesce(p.summary, e.summary),
     attributes_json |-> Coalesce(p.attributes_json, e.attributes_json),
     created_at      |-> Coalesce(e.created_at, p.created_at)]

\* MERGE (e:Entity {uuid: $uuid}): the nodes the pattern matches.
EntityMergeMatches(e, p) == e.uuid = p.uuid

\* MERGE ... SET for one entity: every matching node is updated; one is created when none matches.
MergeEntity(nodes, p) ==
    IF \E i \in 1..Len(nodes) : EntityMergeMatches(nodes[i], p)
    THEN [i \in 1..Len(nodes) |->
            IF EntityMergeMatches(nodes[i], p) THEN SetEntity(nodes[i], p) ELSE nodes[i]]
    ELSE Append(nodes, SetEntity(NewEntityNode(p.uuid), p))

RECURSIVE MergeEntities(_, _, _)
MergeEntities(nodes, entities, now) ==
    IF entities = <<>> THEN nodes
    ELSE MergeEntities(MergeEntity(nodes, EntityParams(Head(entities), now)), Tail(entities), now)

\* upsert_entities: the database after the call, and the list it returns.
upsert_entities(d, entities, now) == [d EXCEPT !.nodes = MergeEntities(d.nodes, entities, now)]

\* The returned list were it to name each identity once, at its first place.
upsert_entities_result_distinct(entities) ==
    LET firsts == SelectSeq([i \in 1..Len(entities) |-> i],
                            LAMBDA i : \A j \in 1..i - 1 :
                                          EntityUuid(entities[j]) # EntityUuid(entities[i]))
    IN  [k \in 1..Len(firsts) |-> EntityUuid(entities[firsts[k]])]

upsert_entities_result(entities) == [i \in 1..Len(entities) |-> EntityUuid(entities[i])]

(***************************************************************************)
(* create_graph, upsert_chunk, link_mentions, upsert_relations.            *)
(***************************************************************************)
\* json.dumps(ontology or {}) of create_graph; an absent ontology is the one without types.
OntologyJson(ontology) == <<"json", ontology>>

\* create_graph: CREATE (g:Graph {...}) under a graph id that was never drawn before.
create_graph(d, graph_id, project_id, name, ontology, now) ==
    [d EXCEPT !.graphs = @ \cup
        {[graph_id |-> graph_id, project_id |-> project_id, name |-> name,
          ontology_json |-> OntologyJson(ontology), created_at |-> now]}]

GraphExists(d, graph_id) == \E g \in d.graphs : g.graph_id = graph_id

\* MERGE (c:Chunk {chunk_id}) SET ...: the chunk nodes after the write.
MergeChunk(chunks, project_id, graph_id, chunk_id, text, now) ==
    IF \E c \in chunks : c.chunk_id = chunk_id
    THEN {IF c.chunk_id = chunk_id
          THEN [chunk_id |-> chunk_id, project_id |-> project_id, graph_id |-> graph_id,
                text |-> text, created_at |-> Coalesce(c.created_at, now)]
          ELSE c : c \in chunks}
    ELSE chunks \cup {[chunk_id |-> chunk_id, project_id |-> project_id, graph_id |-> graph_id,
                       text |-> text, created_at |-> now]}

\* upsert_chunk: the chunk is written first; the ownership edge only when the Graph node exists.
\* upsert_chunk were its MATCH of the Graph node to SET the node's created_at as well.
upsert_chunk_touch_graph(d, project_id, graph_id, chunk_id, text, now) ==
    [d EXCEPT !.chunks = MergeChunk(@, project_id, graph_id, chunk_id, text, now),
              !.graphs = {IF g.graph_id = graph_id THEN [g EXCEPT !.created_at = now] ELSE g : g \in @},
              !.has_chunk = IF GraphExists(d, graph_id)
                            THEN @ (+) SetToBag({<<graph_id, chunk_id>>} \ BagToSet(@)) ELSE @]

\* upsert_chunk with CREATE in place of the second MERGE: one more ownership edge per call.
upsert_chunk_create_edge(d, project_id, graph_id, chunk_id, text, now) ==
    [d EXCEPT !.chunks = MergeChunk(@, project_id, graph_id, chunk_id, text, now),
              !.has_chunk = IF GraphExists(d, graph_id)
                            THEN @ (+) SetToBag({<<graph_id, chunk_id>>}) ELSE @]

upsert_chunk(d, project_id, graph_id, chunk_id, text, now) ==
    [d EXCEPT !.chunks = MergeChunk(@, project_id, graph_id, chunk_id, text, now),
              !.has_chunk = IF GraphExists(d, graph_id)
                            THEN @ (+) SetToBag({<<graph_id, chunk_id>>} \ BagToSet(@)) ELSE @]

\* MATCH (e:Entity {uuid: uuid, graph_id: $graph_id})
EntityInGraph(d, uuid, graph_id) ==
    \E i \in 1..Len(d.nodes) : d.nodes[i].uuid = uuid /\ d.nodes[i].graph_id = graph_id

\* The (chunk, entity) pairs one link_mentions call matches: each listed entity of this graph.
MentionPairs(d, chunk_id, entity_uuids, graph_id) ==
    {<<chunk_id, u>> : u \in {v \in Range(entity_uuids) : EntityInGraph(d, v, graph_id)}}

\* link_mentions with CREATE in place of MERGE: one more edge per matched pair on every call.
link_mentions_create(d, chunk_id, entity_uuids, graph_id) ==
    IF entity_uuids = <<>> THEN d
    ELSE IF ~ \E c \in d.chunks : c.chunk_id = chunk_id /\ c.graph_id = graph_id THEN d
    ELSE [d EXCEPT !.mentions = @ (+) SetToBag(MentionPairs(d, chunk_id, entity_uuids, graph_id))]

\* link_mentions: nothing for an empty list; otherwise MERGE of a MENTIONS edge from the chunk
\* of this graph to each listed entity of this graph: an edge is added only where there is none.
link_mentions(d, chunk_id, entity_uuids, graph_id) ==
    IF entity_uuids = <<>> THEN d
    ELSE IF ~ \E c \in d.chunks : c.chunk_id = chunk_id /\ c.graph_id = graph_id THEN d
    ELSE [d EXCEPT !.mentions = @ (+) SetToBag(MentionPairs(d, chunk_id, entity_uuids, graph_id)
                                                  \ BagToSet(d.mentions))]

\* f"rel_{uuid.uuid4().hex[:16]}": the n-th random identifier.
RandomRelUuid(n) == <<"rel_", n>>

\* rel.uuid or a random one.
RelUuid(rel, n) == IF rel.uuid = EmptyStr \/ rel.uuid = None THEN RandomRelUuid(n) ELSE rel.uuid

\* MATCH (s ...) MATCH (t ...): both endpoints are entities of the relation's graph.
RelEndpointsExist(d, rel) ==
    /\ EntityInGraph(d, rel.source_uuid, rel.graph_id)
    /\ EntityInGraph(d, rel.target_uuid, rel.graph_id)

\* MERGE (s)-[r:REL {uuid: $uuid}]->(t): an edge of that uuid between these endpoints.
RelMergeMatches(r, rel, uuid) ==
    r.uuid = uuid /\ r.source_uuid = rel.source_uuid /\ r.target_uuid = rel.target_uuid

\* The SET clause of upsert_relations; created_at is None on an edge MERGE has just created.
SetRelation(old_created_at, rel, uuid, now) ==
    [uuid            |-> uuid,
     source_uuid     |-> rel.source_uuid,
     target_uuid     |-> rel.target_uuid,
     project_id      |-> rel.project_id,
     graph_id        |-> rel.graph_id,
     name            |-> rel.relation_name,
     fact            |-> PyOr(rel.fact, EmptyStr),
     fact_type       |-> rel.relation_name,
     attributes_json |-> JsonDumps(PyOr(rel.attributes, EmptyDict)),
     created_at      |-> Coalesce(old_created_at, PyOr(rel.created_at, now))]

\* One relation of the batch: skipped when an endpoint is missing, merged otherwise.
MergeRelation(d, rel, uuid, now) ==
    IF ~ RelEndpointsExist(d, rel) THEN d
    ELSE IF \E i \in 1..Len(d.rels) : RelMergeMatches(d.rels[i], rel, uuid)
    THEN [d EXCEPT !.rels = [i \in 1..Len(d.rels) |->
            IF RelMergeMatches(d.rels[i], rel, uuid)
            THEN SetRelation(d.rels[i].created_at, rel, uuid, now) ELSE d.rels[i]]]
    ELSE [d EXCEPT !.rels = Append(@, SetRelation(None, rel, uuid, now))]

\* upsert_relations: the relations of the batch one after the other; n random identifiers
\* were drawn before the call.
\* upsert_relations were a missing endpoint to end the batch.
RECURSIVE upsert_relations_abort(_, _, _, _)
upsert_relations_abort(d, relations, n, now) ==
    IF relations = <<>> \/ ~ RelEndpointsExist(d, Head(relations)) THEN d
    ELSE upsert_relations_abort(
             MergeRelation(d, Head(relations), RelUuid(Head(relations), n + 1), now),
             Tail(relations), n + 1, now)

RECURSIVE upsert_relations(_, _, _, _)
upsert_relations(d, relations, n, now) ==
    IF relations = <<>> THEN d
    ELSE upsert_relations(MergeRelation(d, Head(relations), RelUuid(Head(relations), n + 1), now),
                          Tail(relations), n + 1, now)

(***************************************************************************)
(* delete_graph.                                                           *)
(***************************************************************************)
\* The edges of a bag of edges that satisfy Keep.
KeepEdges(b, Keep(_)) == [m \in {x \in BagToSet(b) : Keep(x)} |-> b[m]]

\* DETACH DELETE of a set of entity uuids: the nodes and every MENTIONS and REL edge on them.
DetachDeleteEntities(d, uuids) ==
    [d EXCEPT !.nodes = SelectSeq(@, LAMBDA e : e.uuid \notin uuids),
              !.mentions = KeepEdges(@, LAMBDA m : m[2] \notin uuids),
              !.rels = SelectSeq(@, LAMBDA r : r.source_uuid \notin uuids /\ r.target_uuid \notin uuids)]

\* DETACH DELETE of a set of chunk ids: the nodes and every HAS_CHUNK and MENTIONS edge on them.
DetachDeleteChunks(d, chunk_ids) ==
    [d EXCEPT !.chunks = {c \in @ : c.chunk_id \notin chunk_ids},
              !.has_chunk = KeepEdges(@, LAMBDA h : h[2] \notin chunk_ids),
              !.mentions = KeepEdges(@, LAMBDA m : m[1] \notin chunk_ids)]

\* First statement: the Graph node, the chunks it owns, the entities those chunks mention and
\* the entities one REL edge away from them.  Nothing when no Graph node has the id.
DeleteGraphCascade(d, graph_id) ==
    IF ~ GraphExists(d, graph_id) THEN d
    ELSE LET cs == {h[2] : h \in {x \in BagToSet(d.has_chunk) : x[1] = graph_id}}
             es == {m[2] : m \in {x \in BagToSet(d.mentions) : x[1] \in cs}}
             e2 == {d.rels[i].target_uuid :
                        i \in {j \in 1..Len(d.rels) : d.rels[j].source_uuid \in es}}
             d1 == DetachDeleteEntities(DetachDeleteChunks(d, cs), es \cup e2)
         IN  [d1 EXCEPT !.graphs = {g \in @ : g.graph_id # graph_id},
                        !.has_chunk = KeepEdges(@, LAMBDA h : h[1] # graph_id)]

\* Second statement: MATCH (e:Entity {graph_id}) DETACH DELETE e.
DeleteGraphEntities(d, graph_id) ==
    DetachDeleteEntities(d, {d.nodes[i].uuid : i \in {j \in 1..Len(d.nodes) : d.nodes[j].graph_id = graph_id}})

\* Third statement: MATCH (c:Chunk {graph_id}) DETACH DELETE c.
DeleteGraphChunks(d, graph_id) ==
    DetachDeleteChunks(d, {c.chunk_id : c \in {x \in d.chunks : x.graph_id = graph_id}})

\* delete_graph without its second statement.
delete_graph_cascade_only(d, graph_id) ==
    DeleteGraphChunks(DeleteGraphCascade(d, graph_id), graph_id)

\* delete_graph without its third statement.
delete_graph_keep_chunks(d, graph_id) ==
    DeleteGraphEntities(DeleteGraphCascade(d, graph_id), graph_id)

delete_graph(d, graph_id) ==
    DeleteGraphChunks(DeleteGraphEntities(DeleteGraphCascade(d, graph_id), graph_id), graph_id)

(***************************************************************************)
(* get_graph_data.                                                         *)
(***************************************************************************)
EntityLabel == <<"E", "n", "t", "i", "t", "y">>

NodeView(e) ==
    [uuid       |-> e.uuid,
     name       |-> PyOr(e.name, EmptyStr),
     labels     |-> <<EntityLabel, PyOr(e.entity_type, EntityLabel)>>,
     summary    |-> PyOr(e.summary, EmptyStr),
     attributes |-> JsonLoads(PyOr(e.attributes_json, JsonDumps(EmptyDict))),
     created_at |-> e.created_at]

\* node_name_map.get(uuid, "")
NodeName(nodes, uuid) ==
    IF \E i \in 1..Len(nodes) : nodes[i].uuid = uuid
    THEN nodes[CHOOSE i \in 1..Len(nodes) :
                 nodes[i].uuid = uuid /\ \A j \in i+1..Len(nodes) : nodes[j].uuid # uuid].name
    ELSE EmptyStr

EdgeView(r, nodes) ==
    [uuid             |-> r.uuid,
     name             |-> PyOr(r.name, EmptyStr),
     fact             |-> PyOr(r.fact, EmptyStr),
     fact_type        |-> PyOr(r.fact_type, PyOr(r.name, EmptyStr)),
     source_node_uuid |-> r.source_uuid,
     target_node_uuid |-> r.target_uuid,
     source_node_name |-> NodeName(nodes, r.source_uuid),
     target_node_name |-> NodeName(nodes, r.target_uuid),
     attributes       |-> JsonLoads(PyOr(r.attributes_json, JsonDumps(EmptyDict))),
     created_at       |-> r.created_at]

\* get_graph_data were its edge query to test the graph id of the relation alone.
get_graph_data_own_id_only(d, graph_id) ==
    LET ns == SelectSeq(d.nodes, LAMBDA e : e.graph_id = graph_id)
        views == [i \in 1..Len(ns) |-> NodeView(ns[i])]
        rs == SelectSeq(d.rels, LAMBDA r : r.graph_id = graph_id)
        edges == [i \in 1..Len(rs) |-> EdgeView(rs[i], views)]
    IN  [graph_id |-> graph_id, nodes |-> views, edges |-> edges,
         node_count |-> Len(views), edge_count |-> Len(edges)]

get_graph_data(d, graph_id) ==
    LET ns == SelectSeq(d.nodes, LAMBDA e : e.graph_id = graph_id)
        views == [i \in 1..Len(ns) |-> NodeView(ns[i])]
        rs == SelectSeq(d.rels, LAMBDA r :
                  /\ r.graph_id = graph_id
                  /\ EntityInGraph(d, r.source_uuid, graph_id)
                  /\ EntityInGraph(d, r.target_uuid, graph_id))
        edges == [i \in 1..Len(rs) |-> EdgeView(rs[i], views)]
    IN  [graph_id |-> graph_id, nodes |-> views, edges |-> edges,
         node_count |-> Len(views), edge_count |-> Len(edges)]

(***************************************************************************)
(* LocalGraphExtractor.extract: the sanitation of what the LLM returned.   *)
(* A raw entity or relation is a record whose missing keys are None.       *)
(***************************************************************************)
\* [e.get("name") for e in ontology.get(key, []) if e.get("name")]
RECURSIVE TypeNames(_)
TypeNames(types) ==
    IF types = <<>> THEN <<>>
    ELSE (IF Head(types).name = None \/ Head(types).name = EmptyStr
          THEN <<>> ELSE <<Head(types).name>>) \o TypeNames(Tail(types))

\* `not x`
Falsy(x) == x = None \/ x = <<>>

CleanEntity(ent) ==
    [name       |-> Strip(ent.name),
     type       |-> Strip(ent.type),
     summary    |-> Strip(PyOr(ent.summary, EmptyStr)),
     attributes |-> PyOr(ent.attributes, EmptyDict)]

EntityKept(ent, entity_types) ==
    /\ ~ Falsy(ent.name)
    /\ ~ Falsy(ent.type)
    /\ (entity_types = <<>> \/ ent.type \in Range(entity_types))

RECURSIVE CleanEntities(_, _)
CleanEntities(entities, entity_types) ==
    IF entities = <<>> THEN <<>>
    ELSE (IF EntityKept(Head(entities), entity_types)
          THEN <<CleanEntity(Head(entities))>> ELSE <<>>)
         \o CleanEntities(Tail(entities), entity_types)

CleanRelation(r) ==
    [source      |-> Strip(r.source),
     source_type |-> Strip(r.source_type),
     target      |-> Strip(r.target),
     target_type |-> Strip(r.target_type),
     relation    |-> Strip(r.relation),
     fact        |-> Strip(PyOr(r.fact, EmptyStr)),
     attributes  |-> PyOr(r.attributes, EmptyDict)]

RelationKept(r, edge_types) ==
    /\ ~ Falsy(r.source)
    /\ ~ Falsy(r.target)
    /\ ~ Falsy(r.source_type)
    /\ ~ Falsy(r.target_type)
    /\ ~ Falsy(r.relation)
    /\ (edge_types = <<>> \/ r.relation \in Range(edge_types))

RECURSIVE CleanRelations(_, _)
CleanRelations(relations, edge_types) ==
    IF relations = <<>> THEN <<>>
    ELSE (IF RelationKept(Head(relations), edge_types)
          THEN <<CleanRelation(Head(relations))>> ELSE <<>>)
         \o CleanRelations(Tail(relations), edge_types)

LLMError == <<"LLMError">>           \* what chat_json raised

\* extract were the failure of the LLM call swallowed into an empty result.
extract_swallow(response, ontology) ==
    [raised |-> FALSE, error |-> None,
     entities  |-> IF response.raised THEN <<>>
                   ELSE CleanEntities(response.entities, TypeNames(ontology.entity_types)),
     relations |-> IF response.raised THEN <<>>
                   ELSE CleanRelations(response.relations, TypeNames(ontology.edge_types))]

\* extract: what chat_json did (raised, or returned an object) to what extract does.  A
\* response without an "entities" or "relations" key is one with the empty list (`or []`).
extract(response, ontology) ==
    IF response.raised
    THEN [raised |-> TRUE, error |-> response.error, entities |-> <<>>, relations |-> <<>>]
    ELSE [raised |-> FALSE, error |-> None,
          entities  |-> CleanEntities(response.entities, TypeNames(ontology.entity_types)),
          relations |-> CleanRelations(response.relations, TypeNames(ontology.edge_types))]

(***************************************************************************)
(* LocalGraphBuilderService.build_graph_from_text.                         *)
(***************************************************************************)
EmptyOntology == [entity_types |-> <<>>, edge_types |-> <<>>]

NoVectors(backend) == [backend |-> backend, points |-> <<>>, inits |-> 0]

\* A build before its first step.  split_text is outside the core: texts is what it returns.
IdleBuild(project_id, ontology, texts) ==
    [pc           |-> "start",
     project_id   |-> project_id,
     ontology     |-> ontology,
     texts        |-> texts,
     graph_id     |-> "",
     idx          |-> 0,             \* index of the current chunk, from 1
     chunk_id     |-> "",
     vector_store |-> FALSE,         \* self.vector_store is not None
     extracted    |-> [entities |-> <<>>, relations |-> <<>>],
     entities     |-> <<>>,
     entity_uuids |-> <<>>,
     progress     |-> <<>>,          \* what the progress sink received
     log          |-> <<>>,          \* the external calls made, in order
     extractions  |-> <<>>,          \* what extract returned, chunk by chunk
     error        |-> None,          \* the exception the build raised
     graph_data   |-> [graph_id |-> "", nodes |-> <<>>, edges |-> <<>>,
                       node_count |-> 0, edge_count |-> 0]]

Event(name, chunk, ok) == [call |-> name, chunk |-> chunk, ok |-> ok]

\* The fraction 0.05 + (idx / total) * 0.85 with total = max(len(chunks), 1), as <<numerator,
\* denominator>>; idx counts from 0 in the code.
Max(a, b) == IF a >= b THEN a ELSE b
\* The fraction were idx / total an integer division.
ChunkProgressIntDiv(idx0, n) ==
    <<5 * Max(n, 1) + 85 * Max(n, 1) * (idx0 \div Max(n, 1)), 100 * Max(n, 1)>>

ChunkProgress(idx0, n) == <<5 * Max(n, 1) + 85 * idx0, 100 * Max(n, 1)>>

\* f"{type}:{name}".lower()
RelationKeyCaseSensitive(type, name) == type \o <<":">> \o name

RelationKey(type, name) == Lower(type \o <<":">> \o name)

\* uuid_by_key.get(key): the uuid of the last entity of the chunk under that key, None if none.
UuidByKey(entities, key) ==
    LET hits == {i \in 1..Len(entities) :
                    RelationKey(entities[i].entity_type, entities[i].name) = key}
    IN  IF hits = {} THEN None
        ELSE EntityUuid(entities[CHOOSE i \in hits : \A j \in hits : j <= i])

\* The relations of the chunk whose two endpoints resolve in the chunk's own map.
RECURSIVE ResolveRelations(_, _, _, _, _)
ResolveRelations(rels, entities, project_id, graph_id, now) ==
    IF rels = <<>> THEN <<>>
    ELSE LET rel == Head(rels)
             source_uuid == UuidByKey(entities, RelationKey(rel.source_type, rel.source))
             target_uuid == UuidByKey(entities, RelationKey(rel.target_type, rel.target))
         IN  (IF source_uuid = None \/ target_uuid = None THEN <<>>
              ELSE <<[project_id |-> project_id, graph_id |-> graph_id,
                      source_uuid |-> source_uuid, target_uuid |-> target_uuid,
                      relation_name |-> rel.relation, fact |-> rel.fact,
                      attributes |-> PyOr(rel.attributes, EmptyDict),
                      created_at |-> now, uuid |-> EmptyStr]>>)
             \o ResolveRelations(Tail(rels), entities, project_id, graph_id, now)

\* The LocalEntity list the builder makes of the chunk's extraction.
ChunkEntities(extracted, project_id, graph_id, now) ==
    [i \in 1..Len(extracted.entities) |->
        [project_id |-> project_id, graph_id |-> graph_id,
         name |-> extracted.entities[i].name,
         entity_type |-> extracted.entities[i].type,
         summary |-> extracted.entities[i].summary,
         attributes |-> PyOr(extracted.entities[i].attributes, EmptyDict),
         created_at |-> now]]

(***************************************************************************)
(* Callers of the store: the inputs they draw their arguments from.        *)
(***************************************************************************)
P == <<"p">>                         \* two tenants
Q == <<"q">>
Projects == {P, Q}
GraphIds == {"gA", "gB"}
\* Chunk ids are random (f"chunk_{uuid4}"): the callers of one graph never hold a chunk id of
\* another graph.
ChunkIdOf(g) == IF g = "gA" THEN "c1" ELSE "c2"
TypeT == <<"T">>                     \* entity types of the ontology
TypeU == <<"U">>
NameA == <<"A">>                     \* "A" and " a" are one name after strip().lower()
NameA2 == <<" ", "a">>
NameB == <<"B">>
NameC == <<"C">>
SummaryS == <<"s">>
SummaryU == <<"u">>
AttrsKV == << <<"k", "v">> >>         \* {"k": "v"}
TextX == <<"x">>
RelName == <<"R">>
FactF == <<"f">>

LocalEntity(project_id, graph_id, name, entity_type, summary, attributes) ==
    [project_id |-> project_id, graph_id |-> graph_id, name |-> name, entity_type |-> entity_type,
     summary |-> summary, attributes |-> attributes, created_at |-> None]

LocalRelation(project_id, graph_id, source_uuid, target_uuid, relation_name, fact, uuid) ==
    [project_id |-> project_id, graph_id |-> graph_id, source_uuid |-> source_uuid,
     target_uuid |-> target_uuid, relation_name |-> relation_name, fact |-> fact,
     attributes |-> None, created_at |-> None, uuid |-> uuid]

\* Sequences over S of length at most n.
SeqUpTo(S, n) == UNION {[1..k -> S] : k \in 0..n}

\* Entities the store's callers write: one tenant's "A" under both spellings and in both
\* graphs, with and without a description, and a second entity "B".
StoreEntities ==
    {LocalEntity(P, g, n, TypeT, SummaryS, AttrsKV) : g \in GraphIds, n \in {NameA, NameB}}

UuidA == stable_entity_uuid(P, TypeT, NameA)
UuidB == stable_entity_uuid(P, TypeT, NameB)
UuidC == stable_entity_uuid(P, TypeT, NameC)
SuppliedRelUuid == <<"usr", 1>>      \* a relation uuid chosen by the caller

\* Entities written to the store alone: one identity under two spellings, with and without a
\* description, in two graphs; the same name under another tenant and under another type.
EntityInputs ==
    {LocalEntity(P, "gA", NameA, TypeT, SummaryS, AttrsKV),
     LocalEntity(P, "gA", NameA2, TypeT, EmptyStr, None),
     LocalEntity(P, "gB", NameA, TypeT, SummaryU, EmptyDict),
     LocalEntity(Q, "gB", NameA, TypeT, None, AttrsKV),
     LocalEntity(P, "gA", NameA, TypeU, SummaryS, None)}

\* Relations written over the entities A and B of graph gA: one with both endpoints, one whose
\* target was never written, one whose graph holds neither endpoint, two with the same
\* supplied uuid and opposite directions.
RelationInputs ==
    {LocalRelation(P, "gA", UuidA, UuidB, RelName, FactF, EmptyStr),
     LocalRelation(P, "gA", UuidA, UuidC, RelName, FactF, EmptyStr),
     LocalRelation(P, "gB", UuidA, UuidB, RelName, FactF, EmptyStr),
     LocalRelation(P, "gA", UuidB, UuidA, RelName, EmptyStr, SuppliedRelUuid),
     LocalRelation(P, "gA", UuidA, UuidB, RelName, FactF, SuppliedRelUuid)}

StoreRelations ==
    {LocalRelation(P, g, UuidA, UuidB, RelName, FactF, EmptyStr) : g \in GraphIds}

(***************************************************************************)
(* The store's operations as actions.  Each is one call of the method.     *)
(***************************************************************************)
\* Graph ids a caller has seen or made up; create_graph draws a new one.
StoreCall(op, args, ret, d, f) ==
    /\ db' = d
    /\ fresh' = f
    /\ pre' = db
    /\ call' = [op |-> op, args |-> args, ret |-> ret]
    /\ nops' = nops + 1

\* A call issued by a caller other than the builder.
DirectCall(op, args, ret, d, f) ==
    /\ StoreCall(op, args, ret, d, f)
    /\ UNCHANGED <<vec, build>>

UseGraphId(f, g) == [f EXCEPT !.graph_ids = @ \cup {g}]

CreateGraph ==
    \E project_id \in {P}, g \in GraphIds \ fresh.graph_ids :
        DirectCall("create_graph", <<project_id>>, g,
                  create_graph(db, g, project_id, <<"n">>, EmptyOntology, NowIso), UseGraphId(fresh, g))

DeleteGraph ==
    \E g \in GraphIds :
        DirectCall("delete_graph", <<g>>, None, delete_graph(db, g), UseGraphId(fresh, g))

UpsertChunkOf(chunk_ids, texts) ==
    \E g \in GraphIds, text \in texts : \E chunk_id \in chunk_ids[g] :
        DirectCall("upsert_chunk", <<P, g, chunk_id, text>>, None,
                  upsert_chunk(db, P, g, chunk_id, text, NowIso), UseGraphId(fresh, g))

UpsertChunk == UpsertChunkOf([g \in GraphIds |-> {ChunkIdOf(g)}], {TextX})

UpsertEntities(batches) ==
    \E entities \in batches :
        DirectCall("upsert_entities", <<entities>>, upsert_entities_result(entities),
                  upsert_entities(db, entities, NowIso),
                  [fresh EXCEPT !.graph_ids = @ \cup {e.graph_id : e \in Range(entities)}])

LinkMentionsOf(lists) ==
    \E uuids \in lists, g \in GraphIds :
        DirectCall("link_mentions", <<ChunkIdOf(g), uuids, g>>, None,
                  link_mentions(db, ChunkIdOf(g), uuids, g), UseGraphId(fresh, g))

LinkMentions == LinkMentionsOf(SeqUpTo({UuidA}, 1))

UpsertRelations(batches) ==
    \E relations \in batches :
        DirectCall("upsert_relations", <<relations>>, None,
                  upsert_relations(db, relations, fresh.rels, NowIso),
                  [fresh EXCEPT !.rels = @ + Len(relations),
                                !.graph_ids = @ \cup {r.graph_id : r \in Range(relations)}])

Init ==
    /\ db = EmptyDb
    /\ fresh = [graph_ids |-> {}, rels |-> 0]
    /\ pre = EmptyDb
    /\ call = [op |-> "none", args |-> <<>>, ret |-> None]
    /\ nops = 0
    /\ vec = NoVectors("none")
    /\ build = IdleBuild(P, EmptyOntology, <<>>)

Next ==
    /\ nops < MaxOps
    /\ \/ CreateGraph
       \/ DeleteGraph
       \/ UpsertChunk
       \/ UpsertEntities(SeqUpTo(StoreEntities, 1))
       \/ LinkMentions
       \/ UpsertRelations(SeqUpTo(StoreRelations, 1))

Spec == Init /\ [][Next]_vars

(***************************************************************************)
(* One build, step by step.  Every step is one external call of the        *)
(* builder, with the bookkeeping around it.                                *)
(***************************************************************************)
RawEntity(name, type, summary, attributes) ==
    [name |-> name, type |-> type, summary |-> summary, attributes |-> attributes]

RawRelation(source, source_type, target, target_type, relation, fact) ==
    [source |-> source, source_type |-> source_type, target |-> target,
     target_type |-> target_type, relation |-> relation, fact |-> fact, attributes |-> None]

\* The ontology of the build: entity type T, relation label R.
BuildOntology == [entity_types |-> <<[name |-> TypeT]>>, edge_types |-> <<[name |-> RelName]>>]

\* Entity lists an LLM response holds: "A" described, "A" under another spelling and another
\* description, "A" undescribed, "B", an entity without a name, one of a type outside the
\* ontology, and "C".
LLMEntityLists ==
    {<<>>,
     <<RawEntity(NameA, TypeT, SummaryS, AttrsKV), RawEntity(NameB, TypeT, None, None)>>,
     <<RawEntity(<<"a", " ">>, TypeT, SummaryU, None)>>,
     <<RawEntity(NameA, TypeT, EmptyStr, None), RawEntity(NameB, TypeT, <<" ">>, None)>>,
     <<RawEntity(None, TypeT, SummaryS, None), RawEntity(NameC, TypeU, SummaryS, None),
       RawEntity(NameC, TypeT, SummaryU, None)>>}

\* Relation lists an LLM response holds: A -> B spelled as the entities are, spelled in lower
\* case, with an endpoint C that the chunks of A and B do not name, and with a label outside
\* the ontology.
LLMRelationLists ==
    {<<>>,
     <<RawRelation(<<"a">>, <<"t">>, <<"b">>, <<"t">>, RelName, FactF)>>,
     <<RawRelation(NameA, TypeT, NameC, TypeT, RelName, FactF),
       RawRelation(NameA, TypeT, NameB, TypeT, RelName, FactF),
       RawRelation(NameB, TypeT, NameA, TypeT, <<"X">>, FactF),
       RawRelation(NameB, TypeT, <<"a">>, TypeT, RelName, None)>>}

\* What chat_json does: it returns an object or it raises.
LLMResponses ==
    {[raised |-> FALSE, error |-> None, entities |-> es, relations |-> rs] :
        es \in LLMEntityLists, rs \in LLMRelationLists}
    \cup {[raised |-> TRUE, error |-> LLMError, entities |-> <<>>, relations |-> <<>>]}

ChunkText(i) == <<"x", i>>

N == Len(build.texts)

Logged(b, name, ok) == [b EXCEPT !.log = Append(@, Event(name, b.idx, ok))]

\* A sink that drops an update less than 0.04 above the last one it passed on.
ReportThrottled(b, label, fraction) ==
    IF /\ b.progress # <<>>
       /\ LET last == b.progress[Len(b.progress)][2]
          IN  100 * (fraction[1] * last[2] - last[1] * fraction[2]) < 4 * fraction[2] * last[2]
    THEN b
    ELSE Logged([b EXCEPT !.progress = Append(@, <<label, fraction>>)], "progress", TRUE)

\* progress_callback(label, fraction): the sink is called synchronously, between the other calls.
Report(b, label, fraction) ==
    Logged([b EXCEPT !.progress = Append(@, <<label, fraction>>)], "progress", TRUE)

\* progress 0.02, create_graph, split_text.
BuildCreateGraph ==
    /\ build.pc = "start"
    /\ \E g \in GraphIds \ fresh.graph_ids :
          /\ StoreCall("create_graph", <<build.project_id>>, g,
                       create_graph(db, g, build.project_id, <<"n">>, build.ontology, NowIso),
                       UseGraphId(fresh, g))
          /\ build' = [Logged(Report(build, "create", <<2, 100>>), "create_graph", TRUE)
                          EXCEPT !.graph_id = g,
                                 !.idx = IF N = 0 THEN 0 ELSE 1,
                                 !.pc = IF N = 0 THEN "finalize" ELSE "persist_chunk"]
    /\ UNCHANGED vec

\* progress of the chunk, a random chunk id, upsert_chunk.
BuildPersistChunk ==
    /\ build.pc = "persist_chunk"
    /\ LET chunk_id == <<"chunk_", build.idx>>
       IN  /\ StoreCall("upsert_chunk",
                        <<build.project_id, build.graph_id, chunk_id, build.texts[build.idx]>>, None,
                        upsert_chunk(db, build.project_id, build.graph_id, chunk_id,
                                     build.texts[build.idx], NowIso),
                        fresh)
           /\ build' = [Logged(Report(build, <<"extract", build.idx, N>>,
                                      ChunkProgress(build.idx - 1, N)), "upsert_chunk", TRUE)
                           EXCEPT !.chunk_id = chunk_id, !.pc = "vector_add"]
    /\ UNCHANGED vec

\* The vector step were a failure of the index to leave the build.
BuildVectorAddFatal ==
    /\ build.pc = "vector_add"
    /\ \/ /\ vec.backend # "qdrant"
          /\ build' = [build EXCEPT !.pc = "extract"]
          /\ UNCHANGED vec
       \/ /\ vec.backend = "qdrant"
          /\ \E init_ok \in (IF build.vector_store THEN {TRUE} ELSE BOOLEAN), add_ok \in BOOLEAN :
                LET opened == IF build.vector_store THEN build
                              ELSE Logged(build, "vector_init", init_ok)
                    added  == IF init_ok THEN Logged(opened, "add_chunk", add_ok) ELSE opened
                IN  /\ init_ok \/ add_ok
                    /\ build' = [added EXCEPT !.vector_store = init_ok,
                                              !.pc = IF init_ok /\ add_ok THEN "extract" ELSE "failed",
                                              !.error = IF init_ok /\ add_ok THEN @ ELSE <<"VectorError">>]
                    /\ vec' = [vec EXCEPT
                          !.inits = IF build.vector_store THEN @ ELSE @ + 1,
                          !.points = IF init_ok /\ add_ok
                                     THEN Append(@, [project_id |-> build.project_id,
                                                     graph_id |-> build.graph_id,
                                                     chunk_id |-> build.chunk_id,
                                                     text |-> build.texts[build.idx],
                                                     type |-> "chunk"])
                                     ELSE @]
    /\ UNCHANGED <<db, fresh, pre, call, nops>>

\* _get_vector_store and add_chunk: the collection is opened when the backend is qdrant and
\* no handle is held; opening and adding may each fail, and neither failure leaves the build.
BuildVectorAdd ==
    /\ build.pc = "vector_add"
    /\ \/ /\ vec.backend # "qdrant"
          /\ build' = [build EXCEPT !.pc = "extract"]
          /\ UNCHANGED vec
       \/ /\ vec.backend = "qdrant"
          /\ \E init_ok \in (IF build.vector_store THEN {TRUE} ELSE BOOLEAN), add_ok \in BOOLEAN :
                LET opened == IF build.vector_store THEN build
                              ELSE Logged(build, "vector_init", init_ok)
                    added  == IF init_ok THEN Logged(opened, "add_chunk", add_ok) ELSE opened
                IN  /\ init_ok \/ add_ok       \* add_chunk is not called without a handle
                    /\ build' = [added EXCEPT !.vector_store = init_ok, !.pc = "extract"]
                    /\ vec' = [vec EXCEPT
                          !.inits = IF build.vector_store THEN @ ELSE @ + 1,
                          !.points = IF init_ok /\ add_ok
                                     THEN Append(@, [project_id |-> build.project_id,
                                                     graph_id |-> build.graph_id,
                                                     chunk_id |-> build.chunk_id,
                                                     text |-> build.texts[build.idx],
                                                     type |-> "chunk"])
                                     ELSE @]
    /\ UNCHANGED <<db, fresh, pre, call, nops>>

\* The extract step were the build to undo its graph when the LLM call fails.
BuildExtractRollback ==
    /\ build.pc = "extract"
    /\ \E response \in LLMResponses :
          LET out == extract(response, build.ontology)
              b == Logged(build, "llm", ~ response.raised)
          IN  /\ build' = IF out.raised
                          THEN [b EXCEPT !.pc = "failed", !.error = out.error]
                          ELSE [b EXCEPT !.pc = "upsert_entities",
                                         !.extracted = [entities |-> out.entities,
                                                        relations |-> out.relations],
                                         !.extractions = Append(@, [entities |-> out.entities,
                                                                    relations |-> out.relations])]
              /\ db' = IF out.raised THEN delete_graph(db, build.graph_id) ELSE db
    /\ UNCHANGED <<fresh, pre, call, nops, vec>>

\* extractor.extract: an exception of the LLM call leaves extract and the build.
BuildExtract ==
    /\ build.pc = "extract"
    /\ \E response \in LLMResponses :
          LET out == extract(response, build.ontology)
              b == Logged(build, "llm", ~ response.raised)
          IN  build' = IF out.raised
                       THEN [b EXCEPT !.pc = "failed", !.error = out.error]
                       ELSE [b EXCEPT !.pc = "upsert_entities",
                                      !.extracted = [entities |-> out.entities,
                                                     relations |-> out.relations],
                                      !.extractions = Append(@, [entities |-> out.entities,
                                                                 relations |-> out.relations])]
    /\ UNCHANGED <<db, fresh, pre, call, nops, vec>>

BuildUpsertEntities ==
    /\ build.pc = "upsert_entities"
    /\ \E entities \in {ChunkEntities(build.extracted, build.project_id, build.graph_id, NowIso)} :
       \E d \in {upsert_entities(db, entities, NowIso)} :
           /\ StoreCall("upsert_entities", <<entities>>, upsert_entities_result(entities), d, fresh)
           /\ build' = [Logged(build, "upsert_entities", TRUE)
                           EXCEPT !.entities = entities,
                                  !.entity_uuids = upsert_entities_result(entities),
                                  !.pc = "link_mentions"]
    /\ UNCHANGED vec

BuildLinkMentions ==
    /\ build.pc = "link_mentions"
    /\ StoreCall("link_mentions", <<build.chunk_id, build.entity_uuids, build.graph_id>>, None,
                 link_mentions(db, build.chunk_id, build.entity_uuids, build.graph_id), fresh)
    /\ build' = [Logged(build, "link_mentions", TRUE) EXCEPT !.pc = "upsert_relations"]
    /\ UNCHANGED vec

\* The last step of a chunk were it to leave the loop after the first chunk.
BuildUpsertRelationsStopEarly ==
    /\ build.pc = "upsert_relations"
    /\ LET relations == ResolveRelations(build.extracted.relations, build.entities,
                                         build.project_id, build.graph_id, NowIso)
       IN  StoreCall("upsert_relations", <<relations>>, None,
                     upsert_relations(db, relations, fresh.rels, NowIso),
                     [fresh EXCEPT !.rels = @ + Len(relations)])
    /\ build' = [Logged(build, "upsert_relations", TRUE) EXCEPT !.pc = "finalize"]
    /\ UNCHANGED vec

\* The chunk's map, its resolvable relations, upsert_relations; then the next chunk.
BuildUpsertRelations ==
    /\ build.pc = "upsert_relations"
    /\ \E relations \in {ResolveRelations(build.extracted.relations, build.entities,
                                         build.project_id, build.graph_id, NowIso)} :
       \E d \in {upsert_relations(db, relations, fresh.rels, NowIso)} :
           StoreCall("upsert_relations", <<relations>>, None, d,
                     [fresh EXCEPT !.rels = @ + Len(relations)])
    /\ build' = [Logged(build, "upsert_relations", TRUE)
                    EXCEPT !.idx = IF build.idx < N THEN @ + 1 ELSE @,
                           !.pc = IF build.idx < N THEN "persist_chunk" ELSE "finalize"]
    /\ UNCHANGED vec

\* The end of a build were it to wait for a first chunk before it reads the snapshot.
BuildFinalizeSkipEmpty ==
    /\ build.pc = "finalize"
    /\ Len(build.texts) > 0
    /\ StoreCall("get_graph_data", <<build.graph_id>>, get_graph_data(db, build.graph_id), db, fresh)
    /\ build' = [Report(Logged(Report(build, "read", <<95, 100>>), "get_graph_data", TRUE),
                         "done", <<100, 100>>)
                    EXCEPT !.graph_data = get_graph_data(db, build.graph_id), !.pc = "done"]
    /\ UNCHANGED vec

\* progress 0.95, get_graph_data, progress 1.0, return.
BuildFinalize ==
    /\ build.pc = "finalize"
    /\ StoreCall("get_graph_data", <<build.graph_id>>, get_graph_data(db, build.graph_id), db, fresh)
    /\ build' = [Report(Logged(Report(build, "read", <<95, 100>>), "get_graph_data", TRUE),
                         "done", <<100, 100>>)
                    EXCEPT !.graph_data = get_graph_data(db, build.graph_id), !.pc = "done"]
    /\ UNCHANGED vec

InitBuild ==
    /\ db = EmptyDb
    /\ fresh = [graph_ids |-> {}, rels |-> 0]
    /\ pre = EmptyDb
    /\ call = [op |-> "none", args |-> <<>>, ret |-> None]
    /\ nops = 0
    /\ vec \in {NoVectors(backend) : backend \in {"qdrant", "none"}}
    /\ build \in {IdleBuild(P, BuildOntology, [i \in 1..n |-> ChunkText(i)]) : n \in 0..MaxChunks}

NextBuild ==
    \/ BuildCreateGraph
    \/ BuildPersistChunk
    \/ BuildVectorAdd
    \/ BuildExtract
    \/ BuildUpsertEntities
    \/ BuildLinkMentions
    \/ BuildUpsertRelations
    \/ BuildFinalize

SpecBuild == InitBuild /\ [][NextBuild]_vars

\* upsert_entities alone, in batches, from any number of callers.
NextEntities ==
    /\ nops < MaxEntityCalls
    /\ UpsertEntities(SeqUpTo(EntityInputs, MaxBatch))

SpecEntities == Init /\ [][NextEntities]_vars

\* upsert_relations in batches, over a graph whose entities were written by one upsert_entities
\* call (A alone, or A and B).
InitRelations ==
    /\ db \in {upsert_entities(EmptyDb, es, <<"t", 0>>) :
                 es \in {<<LocalEntity(P, "gA", NameA, TypeT, SummaryS, None)>>,
                         <<LocalEntity(P, "gA", NameA, TypeT, SummaryS, None),
                           LocalEntity(P, "gA", NameB, TypeT, SummaryS, None)>>}}
    /\ fresh = [graph_ids |-> {"gA"}, rels |-> 0]
    /\ pre = EmptyDb
    /\ call = [op |-> "none", args |-> <<>>, ret |-> None]
    /\ nops = 0
    /\ vec = NoVectors("none")
    /\ build = IdleBuild(P, EmptyOntology, <<>>)

NextRelations ==
    /\ nops < MaxRelCalls
    /\ UpsertRelations(SeqUpTo(RelationInputs, MaxRelBatch))

SpecRelations == InitRelations /\ [][NextRelations]_vars

(***************************************************************************)
(* Properties of the store.                                                *)
(***************************************************************************)
NodeIndex(d) == 1..Len(d.nodes)

\* The identity of an entity as the data model states it: tenant, type, trimmed and
\* lower-cased name.
IdentityOf(project_id, entity_type, name) == <<project_id, entity_type, Lower(Strip(name))>>

NodesOfIdentity(d, id) ==
    {i \in NodeIndex(d) :
        IdentityOf(d.nodes[i].project_id, d.nodes[i].entity_type, d.nodes[i].name) = id}

LastBatch == call.args[1]

\* C1: after any sequence of upsert_entities calls the store holds exactly one entity node per
\* identity: no two nodes share a uuid or a (tenant, type, normalized name), and every entity
\* of the last batch has exactly one node.
C1_OneNodePerIdentity ==
    /\ \A i, j \in NodeIndex(db) :
          (\/ db.nodes[i].uuid = db.nodes[j].uuid
           \/ IdentityOf(db.nodes[i].project_id, db.nodes[i].entity_type, db.nodes[i].name)
                = IdentityOf(db.nodes[j].project_id, db.nodes[j].entity_type, db.nodes[j].name))
          => i = j
    /\ call.op = "upsert_entities" =>
          \A k \in 1..Len(LastBatch) :
             Cardinality(NodesOfIdentity(db,
                 IdentityOf(LastBatch[k].project_id, LastBatch[k].entity_type, LastBatch[k].name))) = 1

\* An upsert_entities call wrote an identity that was stored under another spelling of its
\* name, and the number of nodes did not change.
C1_Witness ==
    /\ call.op = "upsert_entities"
    /\ Len(db.nodes) = Len(pre.nodes)
    /\ \E k \in 1..Len(LastBatch), i \in NodeIndex(pre) :
          /\ pre.nodes[i].uuid = EntityUuid(LastBatch[k])
          /\ pre.nodes[i].name # LastBatch[k].name

\* The node of a uuid, in a database that holds one.
NodeOf(d, uuid) == d.nodes[CHOOSE i \in NodeIndex(d) : d.nodes[i].uuid = uuid]

HasNode(d, uuid) == \E i \in NodeIndex(d) : d.nodes[i].uuid = uuid

\* Entities of the last batch whose identity occurs once in it: their node before the call is
\* the node the write met.
WrittenOnce ==
    {k \in 1..Len(LastBatch) :
        /\ HasNode(pre, EntityUuid(LastBatch[k]))
        /\ \A m \in 1..Len(LastBatch) : EntityUuid(LastBatch[m]) = EntityUuid(LastBatch[k]) => m = k}

BlankSummary(x) == x = None \/ x = EmptyStr
BlankAttributes(x) == x = None \/ x = EmptyDict
BlankJson(j) == j = None \/ j = JsonDumps(EmptyDict)

\* C2: fill-if-blank.  A stored summary (attribute map) that is non-empty is left unchanged by
\* an upsert whose summary (attribute map) is empty, and a stored descriptive field changes
\* only when it was empty and the incoming value is not.
C2_FillIfBlank ==
    call.op = "upsert_entities" =>
        \A k \in WrittenOnce :
            LET old == NodeOf(pre, EntityUuid(LastBatch[k]))
                new == NodeOf(db, EntityUuid(LastBatch[k]))
            IN  /\ (~ BlankSummary(old.summary) /\ BlankSummary(LastBatch[k].summary))
                      => new.summary = old.summary
                /\ (~ BlankJson(old.attributes_json) /\ BlankAttributes(LastBatch[k].attributes))
                      => new.attributes_json = old.attributes_json
                /\ new.summary # old.summary
                      => (BlankSummary(old.summary) /\ ~ BlankSummary(LastBatch[k].summary))
                /\ new.attributes_json # old.attributes_json
                      => (BlankJson(old.attributes_json) /\ ~ BlankAttributes(LastBatch[k].attributes))

(***************************************************************************)
(* Isolation between graphs, and deletion.                                 *)
(***************************************************************************)
WriteOps == {"upsert_chunk", "upsert_entities", "link_mentions", "upsert_relations"}

\* The graph ids the last call was issued with.
CallGraphIds ==
    CASE call.op = "upsert_chunk"     -> {call.args[2]}
      [] call.op = "upsert_entities"  -> {e.graph_id : e \in Range(call.args[1])}
      [] call.op = "link_mentions"    -> {call.args[3]}
      [] call.op = "upsert_relations" -> {r.graph_id : r \in Range(call.args[1])}
      [] call.op = "delete_graph"     -> {call.args[1]}
      [] OTHER -> {}

SameSnapshot(d1, d2, g) ==
    /\ get_graph_data(d1, g).nodes = get_graph_data(d2, g).nodes
    /\ get_graph_data(d1, g).edges = get_graph_data(d2, g).edges

\* C4: a write issued with graph id B changes nothing of what get_graph_data returns for
\* another graph A.
C4_CrossGraphIsolation ==
    call.op \in WriteOps =>
        \A a \in GraphIds : a \notin CallGraphIds => SameSnapshot(pre, db, a)

\* Entities the last call removed from the store.
RemovedNodes == {i \in NodeIndex(pre) : ~ HasNode(db, pre.nodes[i].uuid)}

\* C5: delete_graph(A) leaves the snapshot of every other graph as it was, and an entity
\* leaves the store only when the graph it belongs to is deleted.
C5_DeleteOnlyOwned ==
    /\ call.op = "delete_graph" =>
          \A b \in GraphIds : b # call.args[1] => SameSnapshot(pre, db, b)
    /\ \A i \in RemovedNodes :
          call.op = "delete_graph" /\ pre.nodes[i].graph_id = call.args[1]

\* C6: after delete_graph(g) the Graph record of g is gone, no chunk and no entity carries
\* graph id g, and the snapshot of g is empty.
C6_CascadingDelete ==
    call.op = "delete_graph" =>
        LET g == call.args[1]
        IN  /\ ~ GraphExists(db, g)
            /\ \A c \in db.chunks : c.graph_id # g
            /\ \A i \in NodeIndex(db) : db.nodes[i].graph_id # g
            /\ \A h \in BagToSet(db.has_chunk) : h[1] # g
            /\ get_graph_data(db, g).nodes = <<>>
            /\ get_graph_data(db, g).edges = <<>>
            /\ get_graph_data(db, g).node_count = 0
            /\ get_graph_data(db, g).edge_count = 0

\* delete_graph ran on a graph that had its record, a chunk, entities and a relation.
C6_Witness ==
    /\ call.op = "delete_graph"
    /\ GraphExists(pre, call.args[1])
    /\ \E c \in pre.chunks : c.graph_id = call.args[1]
    /\ get_graph_data(pre, call.args[1]).node_count >= 2
    /\ get_graph_data(pre, call.args[1]).edge_count >= 1

\* C7 as stated: delete_graph on an id without a Graph record leaves the whole store
\* unchanged.
C7_NoRecordNoChange ==
    (call.op = "delete_graph" /\ ~ GraphExists(pre, call.args[1])) => db = pre

\* Edges on a node that the deletion of a graph id takes away.
NodeGone(d, uuid, g) == \E i \in NodeIndex(d) : d.nodes[i].uuid = uuid /\ d.nodes[i].graph_id = g
ChunkGone(d, chunk_id, g) == \E c \in d.chunks : c.chunk_id = chunk_id /\ c.graph_id = g

\* C7, amended: delete_graph on an id without a Graph record removes exactly the entities and
\* chunks that carry the id, with the edges on them, and nothing else (so it changes nothing
\* when nothing carries the id); a second delete_graph of the same id changes nothing.
C7_DeleteIdempotent ==
    /\ (call.op = "delete_graph" /\ ~ GraphExists(pre, call.args[1])) =>
          LET g == call.args[1]
          IN  /\ db.graphs = pre.graphs
              /\ db.nodes = SelectSeq(pre.nodes, LAMBDA e : e.graph_id # g)
              /\ db.chunks = {c \in pre.chunks : c.graph_id # g}
              /\ db.has_chunk = KeepEdges(pre.has_chunk, LAMBDA h : ~ ChunkGone(pre, h[2], g))
              /\ db.mentions = KeepEdges(pre.mentions, LAMBDA m :
                                   ~ ChunkGone(pre, m[1], g) /\ ~ NodeGone(pre, m[2], g))
              /\ db.rels = SelectSeq(pre.rels, LAMBDA r :
                                   ~ NodeGone(pre, r.source_uuid, g) /\ ~ NodeGone(pre, r.target_uuid, g))
              /\ ((\A i \in NodeIndex(pre) : pre.nodes[i].graph_id # g)
                    /\ (\A c \in pre.chunks : c.graph_id # g)) => db = pre
    /\ \A g \in GraphIds : delete_graph(delete_graph(db, g), g) = delete_graph(db, g)
    /\ call.op = "delete_graph" => delete_graph(db, call.args[1]) = db

\* delete_graph ran on an id without a Graph record while a chunk and an entity carried it.
C7_Witness ==
    /\ call.op = "delete_graph"
    /\ ~ GraphExists(pre, call.args[1])
    /\ \E i \in NodeIndex(pre) : pre.nodes[i].graph_id = call.args[1]
    /\ \E c \in pre.chunks : c.graph_id = call.args[1]

(***************************************************************************)
(* upsert_relations over a batch.                                          *)
(***************************************************************************)
\* Both endpoints of the relation were entities of its graph when the call was issued.
Resolvable(rel) ==
    /\ \E i \in NodeIndex(pre) :
          pre.nodes[i].uuid = rel.source_uuid /\ pre.nodes[i].graph_id = rel.graph_id
    /\ \E i \in NodeIndex(pre) :
          pre.nodes[i].uuid = rel.target_uuid /\ pre.nodes[i].graph_id = rel.graph_id

SameEdgeKey(r1, r2) ==
    r1.uuid = r2.uuid /\ r1.source_uuid = r2.source_uuid /\ r1.target_uuid = r2.target_uuid

\* The relations of the batch that must add an edge: those with both endpoints, except a
\* resubmission of a supplied edge key the store or the batch already holds.
AddsEdge(batch, k) ==
    /\ Resolvable(batch[k])
    /\ batch[k].uuid # EmptyStr =>
          /\ \A i \in 1..Len(pre.rels) : ~ SameEdgeKey(pre.rels[i], batch[k])
          /\ \A m \in 1..(k - 1) : ~ (Resolvable(batch[m]) /\ SameEdgeKey(batch[m], batch[k]))

RECURSIVE AddedIndices(_, _)
AddedIndices(batch, k) ==
    IF k > Len(batch) THEN <<>>
    ELSE (IF AddsEdge(batch, k) THEN <<k>> ELSE <<>>) \o AddedIndices(batch, k + 1)

\* C8: upsert_relations adds an edge for exactly the relations of the batch whose two endpoints
\* exist as entities of the relation's graph, in batch order; a relation with a missing endpoint
\* adds nothing and the relations before and after it are still written; no edge is removed.
C8_RelationBatch ==
    call.op = "upsert_relations" =>
        LET batch == call.args[1]
            added == AddedIndices(batch, 1)
        IN  /\ Len(db.rels) = Len(pre.rels) + Len(added)
            /\ \A i \in 1..Len(pre.rels) : SameEdgeKey(db.rels[i], pre.rels[i])
            /\ \A i \in 1..Len(added) :
                  LET r == db.rels[Len(pre.rels) + i]
                      rel == batch[added[i]]
                  IN  /\ r.source_uuid = rel.source_uuid
                      /\ r.target_uuid = rel.target_uuid
                      /\ r.graph_id = rel.graph_id
                      /\ r.name = rel.relation_name
                      /\ r.fact = rel.fact
                      /\ rel.uuid # EmptyStr => r.uuid = rel.uuid
                      /\ rel.uuid = EmptyStr =>
                            \A j \in 1..Len(db.rels) : db.rels[j].uuid = r.uuid => j = Len(pre.rels) + i
            /\ \A k \in 1..Len(batch) :
                  Resolvable(batch[k]) <=>
                     \E j \in 1..Len(db.rels) :
                        /\ db.rels[j].source_uuid = batch[k].source_uuid
                        /\ db.rels[j].target_uuid = batch[k].target_uuid
                        /\ db.rels[j].graph_id = batch[k].graph_id

\* A batch of three whose second relation misses an endpoint and whose first and third were
\* written.
C8_Witness ==
    /\ call.op = "upsert_relations"
    /\ Len(call.args[1]) = 3
    /\ Resolvable(call.args[1][1])
    /\ ~ Resolvable(call.args[1][2])
    /\ Resolvable(call.args[1][3])
    /\ Len(db.rels) = Len(pre.rels) + 2

(***************************************************************************)
(* Properties of a build.                                                  *)
(***************************************************************************)
ChunkIndex == 1..Len(build.extractions)

\* The identity key of an extracted entity of the build.
ExtractedUuid(e) == stable_entity_uuid(build.project_id, e.type, e.name)

\* The chunks whose extraction describes the identity: an entity of that identity with a
\* non-empty summary.
Suppliers(uuid) ==
    {i \in ChunkIndex :
        \E k \in 1..Len(build.extractions[i].entities) :
            /\ ExtractedUuid(build.extractions[i].entities[k]) = uuid
            /\ build.extractions[i].entities[k].summary # EmptyStr}

SummariesIn(i, uuid) ==
    {build.extractions[i].entities[k].summary :
        k \in {m \in 1..Len(build.extractions[i].entities) :
                  /\ ExtractedUuid(build.extractions[i].entities[m]) = uuid
                  /\ build.extractions[i].entities[m].summary # EmptyStr}}

SnapshotNodes(uuid) ==
    {j \in 1..Len(build.graph_data.nodes) : build.graph_data.nodes[j].uuid = uuid}

\* C3: first-writer-wins.  The snapshot a build returns holds exactly one node for every
\* entity its chunks named, and the node's summary is the one of the earliest chunk that
\* described the entity.
C3_FirstWriterWins ==
    build.pc = "done" =>
        \A i \in ChunkIndex : \A k \in 1..Len(build.extractions[i].entities) :
            LET uuid == ExtractedUuid(build.extractions[i].entities[k])
                first == CHOOSE c \in Suppliers(uuid) : \A o \in Suppliers(uuid) : c <= o
            IN  /\ Cardinality(SnapshotNodes(uuid)) = 1
                /\ Suppliers(uuid) # {} =>
                      \A j \in SnapshotNodes(uuid) :
                          build.graph_data.nodes[j].summary \in SummariesIn(first, uuid)

\* The build has just issued upsert_relations for its current chunk.
JustWroteRelations ==
    /\ build.log # <<>>
    /\ build.log[Len(build.log)].call = "upsert_relations"

\* The chunk whose relations were just written: its extraction is the last one.
LastExtraction == build.extractions[Len(build.extractions)]

\* An entity of the chunk whose type and name equal the given ones up to case.
MatchesEntity(type, name, e) == Lower(type) = Lower(e.type) /\ Lower(name) = Lower(e.name)

MatchingUuids(type, name) ==
    {ExtractedUuid(LastExtraction.entities[k]) :
        k \in {m \in 1..Len(LastExtraction.entities) :
                  MatchesEntity(type, name, LastExtraction.entities[m])}}

ResolvesInChunk(rel) ==
    /\ MatchingUuids(rel.source_type, rel.source) # {}
    /\ MatchingUuids(rel.target_type, rel.target) # {}

RECURSIVE ResolvedIndices(_, _)
ResolvedIndices(rels, k) ==
    IF k > Len(rels) THEN <<>>
    ELSE (IF ResolvesInChunk(rels[k]) THEN <<k>> ELSE <<>>) \o ResolvedIndices(rels, k + 1)

RaisedAt == {j \in 1..Len(build.log) : build.log[j].call = "llm" /\ ~ build.log[j].ok}

\* C10: when the LLM call of chunk i raises, the build raises that error, returns nothing, and
\* makes no further call: the failed LLM call is the last external call, and no call was made
\* for a later chunk.
C10_ExtractionFailureFatal ==
    \A j \in RaisedAt :
        /\ build.pc = "failed"
        /\ build.error = LLMError
        /\ build.graph_data.graph_id = ""
        /\ j = Len(build.log)
        /\ \A m \in 1..Len(build.log) : build.log[m].chunk <= build.log[j].chunk
        /\ Len(build.extractions) = build.log[j].chunk - 1
        /\ Cardinality({m \in 1..Len(build.log) : build.log[m].call = "llm"}) = build.log[j].chunk
        /\ Cardinality({c \in db.chunks : c.graph_id = build.graph_id}) = build.log[j].chunk
        /\ Len(vec.points) <= build.log[j].chunk

\* The LLM call of the first chunk raised in a build of several chunks, after the chunk was
\* added to the vector index.
C10_Witness ==
    /\ build.pc = "failed"
    /\ N >= 2
    /\ build.idx = 1
    /\ Len(vec.points) = 1
    /\ RaisedAt # {}

\* The chunk id the build gave to its chunk j.
BuildChunkId(j) == <<"chunk_", j>>

\* The relation of chunk j names two entities of chunk j, up to case.
EndpointIn(j, type, name) ==
    \E k \in 1..Len(build.extractions[j].entities) :
        MatchesEntity(type, name, build.extractions[j].entities[k])

UuidsIn(j, type, name) ==
    {ExtractedUuid(build.extractions[j].entities[k]) :
        k \in {m \in 1..Len(build.extractions[j].entities) :
                  MatchesEntity(type, name, build.extractions[j].entities[m])}}

ResolvesIn(j, rel) ==
    EndpointIn(j, rel.source_type, rel.source) /\ EndpointIn(j, rel.target_type, rel.target)

ResolvedOf(j) ==
    {k \in 1..Len(build.extractions[j].relations) : ResolvesIn(j, build.extractions[j].relations[k])}

\* The number of edges the chunks 1..j committed.
RECURSIVE CommittedEdges(_)
CommittedEdges(j) == IF j = 0 THEN 0 ELSE Cardinality(ResolvedOf(j)) + CommittedEdges(j - 1)

\* C11: no rollback.  After a build failed at chunk i the store holds the graph record, the
\* chunk records of chunks 1..i with their ownership edges, and every entity, mention and
\* relation of chunks 1..i-1; the failure itself changed nothing in the store or the index.
C11_NoRollback ==
    build.pc = "failed" =>
        /\ GraphExists(db, build.graph_id)
        /\ \A j \in 1..build.idx :
              /\ \E c \in db.chunks :
                    /\ c.chunk_id = BuildChunkId(j)
                    /\ c.graph_id = build.graph_id
                    /\ c.text = build.texts[j]
              /\ BagIn(<<build.graph_id, BuildChunkId(j)>>, db.has_chunk)
        /\ Len(build.extractions) = build.idx - 1
        /\ \A j \in ChunkIndex :
              /\ \A k \in 1..Len(build.extractions[j].entities) :
                    LET uuid == ExtractedUuid(build.extractions[j].entities[k])
                    IN  /\ EntityInGraph(db, uuid, build.graph_id)
                        /\ BagIn(<<BuildChunkId(j), uuid>>, db.mentions)
              /\ \A k \in ResolvedOf(j) :
                    LET rel == build.extractions[j].relations[k]
                    IN  \E m \in 1..Len(db.rels) :
                          /\ db.rels[m].graph_id = build.graph_id
                          /\ db.rels[m].name = rel.relation
                          /\ db.rels[m].fact = rel.fact
                          /\ db.rels[m].source_uuid \in UuidsIn(j, rel.source_type, rel.source)
                          /\ db.rels[m].target_uuid \in UuidsIn(j, rel.target_type, rel.target)
        /\ Len(db.rels) = CommittedEdges(Len(build.extractions))
        /\ call.op = "upsert_chunk"
        /\ db = upsert_chunk(pre, build.project_id, build.graph_id, build.chunk_id,
                             build.texts[build.idx], <<"t", nops>>)

\* A build of two chunks failed at the second, after the first committed entities and an edge.
C11_Witness ==
    /\ build.pc = "failed"
    /\ build.idx = 2
    /\ Len(db.nodes) >= 2
    /\ Len(db.rels) >= 1
    /\ db.mentions # EmptyBag

\* The build of the same chunks and extractions by a builder without a vector index, as a
\* fold over the chunks: the store, the number of store calls and of relation uuids drawn.
RECURSIVE PlainBuild(_)
PlainBuild(j) ==
    IF j = 0
    THEN [d |-> create_graph(EmptyDb, build.graph_id, build.project_id, <<"n">>, build.ontology,
                             <<"t", 1>>),
          n |-> 1, r |-> 0]
    ELSE LET st == PlainBuild(j - 1)
             d1 == upsert_chunk(st.d, build.project_id, build.graph_id, BuildChunkId(j),
                                build.texts[j], <<"t", st.n + 1>>)
             ents == ChunkEntities(build.extractions[j], build.project_id, build.graph_id,
                                   <<"t", st.n + 2>>)
             d2 == upsert_entities(d1, ents, <<"t", st.n + 2>>)
             d3 == link_mentions(d2, BuildChunkId(j), upsert_entities_result(ents), build.graph_id)
             rels == ResolveRelations(build.extractions[j].relations, ents, build.project_id,
                                      build.graph_id, <<"t", st.n + 4>>)
             d4 == upsert_relations(d3, rels, st.r, <<"t", st.n + 4>>)
         IN  [d |-> d4, n |-> st.n + 4, r |-> st.r + Len(rels)]

VectorFailures == {j \in 1..Len(build.log) :
                     build.log[j].call \in {"vector_init", "add_chunk"} /\ ~ build.log[j].ok}

CallsOf(name) == {j \in 1..Len(build.log) : build.log[j].call = name}

\* C12: a failure of the vector index never ends a build.  A build fails only on its LLM
\* call; after the vector step the build extracts; a finished build extracted every chunk,
\* upserted its entities and relations, and returns the snapshot the same extractions give a
\* builder whose vector index is disabled.
C12_VectorFailureNotFatal ==
    /\ build.pc = "failed" => build.log[Len(build.log)] = Event("llm", build.idx, FALSE)
    /\ (build.log # <<>> /\ build.log[Len(build.log)].call \in {"vector_init", "add_chunk"})
          => build.pc = "extract"
    /\ build.pc = "done" =>
          /\ Len(build.extractions) = N
          /\ Cardinality(CallsOf("llm")) = N
          /\ Cardinality(CallsOf("upsert_entities")) = N
          /\ Cardinality(CallsOf("upsert_relations")) = N
          /\ build.graph_data = get_graph_data(PlainBuild(N).d, build.graph_id)

\* A finished build of two chunks during which adding to the index failed, and opening it too.
C12_Witness ==
    /\ build.pc = "done"
    /\ N = 2
    /\ \E j \in VectorFailures : build.log[j].call = "add_chunk"
    /\ \E j \in VectorFailures : build.log[j].call = "vector_init"
    /\ build.graph_data.node_count >= 1

Fraction(k) == build.progress[k][2]

\* a/b < c/d and a/b = c/d for fractions with positive denominators.
FracLess(x, y) == x[1] * y[2] < y[1] * x[2]
FracEq(x, y) == x[1] * y[2] = y[1] * x[2]

ProgressCalls == {j \in 1..Len(build.log) : build.log[j].call = "progress"}

\* C13: the fractions the sink receives lie in [0,1] and increase; 1.0 comes last, when the
\* build is done, and right after the call that read the final snapshot.
C13_ProgressMonotone ==
    /\ \A k \in 1..Len(build.progress) :
          /\ Fraction(k)[2] > 0
          /\ 0 <= Fraction(k)[1]
          /\ Fraction(k)[1] <= Fraction(k)[2]
          /\ k < Len(build.progress) => FracLess(Fraction(k), Fraction(k + 1))
          /\ FracEq(Fraction(k), <<1, 1>>) =>
                /\ k = Len(build.progress)
                /\ build.pc = "done"
                /\ build.log[Len(build.log)].call = "progress"
                /\ build.log[Len(build.log) - 1].call = "get_graph_data"
                /\ build.graph_data = get_graph_data(db, build.graph_id)
    /\ build.pc = "done" => FracEq(Fraction(Len(build.progress)), <<1, 1>>)
    /\ Cardinality(ProgressCalls) = Len(build.progress)

\* A finished build of two chunks: five fractions, the last being 1.0.
C13_Witness ==
    /\ build.pc = "done"
    /\ N = 2
    /\ Len(build.progress) > 3

\* C14 as stated: a successful build over N chunks calls the sink N+2 times.
C14_ProgressCount == build.pc = "done" => Len(build.progress) = N + 2

ProgressLabels == [k \in 1..Len(build.progress) |-> build.progress[k][1]]

\* C14, amended: a successful build over N chunks calls the sink N+3 times: for the graph
\* creation, once per chunk, before reading the snapshot and when done; while the build runs
\* the sink has been called once for the creation and once per chunk whose processing began.
C14_ProgressCountAmended ==
    /\ build.pc = "done" =>
          /\ Len(build.progress) = N + 3
          /\ ProgressLabels = <<"create">> \o [j \in 1..N |-> <<"extract", j, N>>]
                                \o <<"read", "done">>
    /\ build.pc = "persist_chunk" => Len(build.progress) = build.idx
    /\ build.pc \notin {"start", "persist_chunk", "done"} => Len(build.progress) = 1 + build.idx

\* A finished build of two chunks: five updates.
C14_Witness ==
    /\ build.pc = "done"
    /\ N = 2
    /\ Len(build.progress) = 5

(***************************************************************************)
(* LocalToolsService: retrieval over the graph store and the vector index. *)
(***************************************************************************)
MaxLimit == 2                        \* the largest `limit` a caller passes
MaxToolEdges == 3                    \* the most relations written before retrieval

PanoramaVectorLimit == 30
InsightFactLimit == 15
InsightNodeLimit == 10
InsightEdgeLimit == 20

\* s[:n] of a list.
PySlice(s, n) ==
    IF n >= 0 THEN SubSeq(s, 1, IF n < Len(s) THEN n ELSE Len(s))
    ELSE SubSeq(s, 1, Max(Len(s) + n, 0))

\* The points a search with this graph filter can return (`if graph_id:` adds the filter).
MatchingPoints(points, graph_id) ==
    {i \in 1..Len(points) : graph_id = "" \/ points[i].graph_id = graph_id}

\* The orders in which the index may rank the matching points for a query.
Rankings(points, graph_id) ==
    {r \in [1..Cardinality(MatchingPoints(points, graph_id)) -> MatchingPoints(points, graph_id)] :
        \A i, j \in DOMAIN r : i # j => r[i] # r[j]}

SearchItem(point) ==
    [chunk_id |-> point.chunk_id, text |-> point.text, graph_id |-> point.graph_id]

\* search_chunks: the `limit` best points under the filter, as items.
search_chunks(points, graph_id, ranking, limit) ==
    PySlice([i \in 1..Len(ranking) |-> SearchItem(points[ranking[i]])], limit)

\* self.vector_store of a LocalToolsService and what its search does in this call: absent
\* (backend not qdrant, or the constructor failed), raising, or ranking the points.
NoVectorStore == [present |-> FALSE, raised |-> FALSE, ranking |-> <<>>]

VectorStores(graph_id) ==
    {NoVectorStore}
    \cup (IF vec.backend = "qdrant"
          THEN {[present |-> TRUE, raised |-> TRUE, ranking |-> <<>>]}
               \cup {[present |-> TRUE, raised |-> FALSE, ranking |-> r] :
                        r \in Rankings(vec.points, graph_id)}
          ELSE {})

\* [i.get("text", "") for i in items if i.get("text")]
RECURSIVE ItemTexts(_)
ItemTexts(items) ==
    IF items = <<>> THEN <<>>
    ELSE (IF Head(items).text # EmptyStr THEN <<Head(items).text>> ELSE <<>>)
         \o ItemTexts(Tail(items))

\* The facts of the edges that have one, in order.
RECURSIVE EdgeFacts(_)
EdgeFacts(edges) ==
    IF edges = <<>> THEN <<>>
    ELSE (IF Head(edges).fact # EmptyStr THEN <<Head(edges).fact>> ELSE <<>>)
         \o EdgeFacts(Tail(edges))

\* The facts of the vector search of a retrieval call: none when the store is absent or raises.
VectorFacts(points, vs, graph_id, limit) ==
    IF vs.present /\ ~ vs.raised
    THEN ItemTexts(search_chunks(points, graph_id, vs.ranking, limit))
    ELSE <<>>

SearchResult(facts, query) ==
    [raised |-> FALSE, facts |-> facts, edges |-> <<>>, nodes |-> <<>>, query |-> query,
     total_count |-> Len(facts)]

\* What a retrieval call that raises leaves its caller.
Raised == [raised |-> TRUE]

\* A graph store whose get_graph_data raises (the session cannot reach Neo4j); the retrieval
\* methods read self.graph_store outside any try.
Unreachable == [unreachable |-> TRUE]

\* quick_search were its fallback to keep the empty facts.
quick_search_no_filter(d, points, vs, graph_id, query, limit) ==
    LET vfacts == VectorFacts(points, vs, graph_id, limit)
        edges == PySlice(get_graph_data(d, graph_id).edges, limit)
        facts == IF vfacts = <<>> THEN [i \in 1..Len(edges) |-> edges[i].fact] ELSE vfacts
    IN  IF vfacts = <<>> /\ d = Unreachable THEN Raised
        ELSE SearchResult(PySlice(facts, limit), query)

\* quick_search were the vector search not wrapped in try/except.
quick_search_unguarded(d, points, vs, graph_id, query, limit) ==
    IF vs.present /\ vs.raised THEN Raised
    ELSE LET vfacts == VectorFacts(points, vs, graph_id, limit)
             facts == IF vfacts = <<>>
                      THEN EdgeFacts(PySlice(get_graph_data(d, graph_id).edges, limit))
                      ELSE vfacts
         IN  IF vfacts = <<>> /\ d = Unreachable THEN Raised
             ELSE SearchResult(PySlice(facts, limit), query)

\* quick_search were a failure of the graph store to leave it with no facts.
quick_search_store_guarded(d, points, vs, graph_id, query, limit) ==
    LET vfacts == VectorFacts(points, vs, graph_id, limit)
        facts == IF vfacts # <<>> THEN vfacts
                 ELSE IF d = Unreachable THEN <<>>
                 ELSE EdgeFacts(PySlice(get_graph_data(d, graph_id).edges, limit))
    IN  SearchResult(PySlice(facts, limit), query)

\* quick_search: the texts of the vector search; when there are none, the facts of the first
\* `limit` edges of the graph that have one, read from the graph store.
quick_search(d, points, vs, graph_id, query, limit) ==
    LET vfacts == VectorFacts(points, vs, graph_id, limit)
        facts == IF vfacts = <<>>
                 THEN EdgeFacts(PySlice(get_graph_data(d, graph_id).edges, limit))
                 ELSE vfacts
    IN  IF vfacts = <<>> /\ d = Unreachable THEN Raised
        ELSE SearchResult(PySlice(facts, limit), query)

NodeInfo(n) ==
    [uuid |-> n.uuid, name |-> n.name,
     labels |-> IF n.labels = <<>> THEN <<EntityLabel>> ELSE n.labels, summary |-> n.summary,
     attributes |-> n.attributes]

EdgeInfo(e) ==
    [uuid |-> e.uuid, name |-> e.name, fact |-> e.fact,
     source_node_uuid |-> e.source_node_uuid, target_node_uuid |-> e.target_node_uuid,
     source_node_name |-> e.source_node_name, target_node_name |-> e.target_node_name,
     created_at |-> e.created_at, valid_at |-> None, invalid_at |-> None, expired_at |-> None]

\* panorama_search were include_expired to bring the edge facts back as historical ones.
panorama_search_with_history(d, points, vs, graph_id, query, include_expired) ==
    LET graph == get_graph_data(d, graph_id)
        vfacts == IF query # EmptyStr
                  THEN VectorFacts(points, vs, graph_id, PanoramaVectorLimit) ELSE <<>>
        facts == IF vfacts = <<>> THEN EdgeFacts(graph.edges) ELSE vfacts
    IN  IF d = Unreachable THEN Raised ELSE
        [raised |-> FALSE, query |-> query,
         all_nodes |-> [i \in 1..Len(graph.nodes) |-> NodeInfo(graph.nodes[i])],
         all_edges |-> [i \in 1..Len(graph.edges) |-> EdgeInfo(graph.edges[i])],
         total_nodes |-> Len(graph.nodes), total_edges |-> Len(graph.edges),
         active_facts |-> facts,
         historical_facts |-> IF include_expired THEN EdgeFacts(graph.edges) ELSE <<>>,
         active_count |-> Len(facts), 
         historical_count |-> IF include_expired THEN Len(EdgeFacts(graph.edges)) ELSE 0]

\* panorama_search were it to search the index for an empty query too.
panorama_search_any_query(d, points, vs, graph_id, query, include_expired) ==
    LET graph == get_graph_data(d, graph_id)
        vfacts == VectorFacts(points, vs, graph_id, PanoramaVectorLimit)
        facts == IF vfacts = <<>> THEN EdgeFacts(graph.edges) ELSE vfacts
    IN  IF d = Unreachable THEN Raised ELSE
        [raised |-> FALSE, query |-> query,
         all_nodes |-> [i \in 1..Len(graph.nodes) |-> NodeInfo(graph.nodes[i])],
         all_edges |-> [i \in 1..Len(graph.edges) |-> EdgeInfo(graph.edges[i])],
         total_nodes |-> Len(graph.nodes), total_edges |-> Len(graph.edges),
         active_facts |-> facts, historical_facts |-> <<>>,
         active_count |-> Len(facts), historical_count |-> 0]

\* panorama_search: the graph is read first; the vector search is made only for a non-empty
\* query, with limit 30.
panorama_search(d, points, vs, graph_id, query, include_expired) ==
    LET graph == get_graph_data(d, graph_id)
        vfacts == IF query # EmptyStr
                  THEN VectorFacts(points, vs, graph_id, PanoramaVectorLimit) ELSE <<>>
        facts == IF vfacts = <<>> THEN EdgeFacts(graph.edges) ELSE vfacts
    IN  IF d = Unreachable THEN Raised ELSE
        [raised |-> FALSE, query |-> query,
         all_nodes |-> [i \in 1..Len(graph.nodes) |-> NodeInfo(graph.nodes[i])],
         all_edges |-> [i \in 1..Len(graph.edges) |-> EdgeInfo(graph.edges[i])],
         total_nodes |-> Len(graph.nodes), total_edges |-> Len(graph.edges),
         active_facts |-> facts,
         historical_facts |-> IF ~ include_expired THEN <<>> ELSE <<>>,
         active_count |-> Len(facts), historical_count |-> 0]

NodeLabel == <<"N", "o", "d", "e">>
DefaultTypeLabel == <<"shi", "ti">>      \* the two characters of the default label

\* The first label that is neither "Entity" nor "Node".
EntityTypeLabel(labels) ==
    LET own == SelectSeq(labels, LAMBDA l : l \notin {EntityLabel, NodeLabel})
    IN  IF own = <<>> THEN DefaultTypeLabel ELSE Head(own)

EntityInsight(n) ==
    [name |-> n.name, type |-> EntityTypeLabel(n.labels), summary |-> n.summary,
     related_facts |-> <<>>]

\* f"{s} --[{rel}]--> {t}", a name that is empty replaced by the first 8 characters of the uuid.
RelationshipChain(e) ==
    <<IF e.source_node_name # EmptyStr THEN e.source_node_name ELSE <<"uuid8", e.source_node_uuid>>,
      IF e.name # EmptyStr THEN e.name ELSE IF e.fact_type # EmptyStr THEN e.fact_type ELSE <<"REL">>,
      IF e.target_node_name # EmptyStr THEN e.target_node_name ELSE <<"uuid8", e.target_node_uuid>>>>

\* insight_forge were it to list every node and every edge of the snapshot.
insight_forge_unbounded(d, points, vs, graph_id, query, simulation_requirement) ==
    LET search == quick_search(d, points, vs, graph_id, query, InsightFactLimit)
        graph == get_graph_data(d, graph_id)
        nodes == graph.nodes
        edges == graph.edges
    IN  IF search.raised \/ d = Unreachable THEN Raised
        ELSE [raised |-> FALSE, query |-> query,
              simulation_requirement |-> simulation_requirement,
              sub_queries |-> <<query>>,
              semantic_facts |-> search.facts,
              entity_insights |-> [i \in 1..Len(nodes) |-> EntityInsight(nodes[i])],
              relationship_chains |-> [i \in 1..Len(edges) |-> RelationshipChain(edges[i])],
              total_facts |-> Len(search.facts),
              total_entities |-> Len(nodes),
              total_relationships |-> Len(edges)]

\* insight_forge: quick_search with limit 15, the first 10 nodes, the first 20 edges.
insight_forge(d, points, vs, graph_id, query, simulation_requirement) ==
    LET search == quick_search(d, points, vs, graph_id, query, InsightFactLimit)
        graph == get_graph_data(d, graph_id)
        nodes == PySlice(graph.nodes, InsightNodeLimit)
        edges == PySlice(graph.edges, InsightEdgeLimit)
    IN  IF search.raised \/ d = Unreachable THEN Raised
        ELSE [raised |-> FALSE, query |-> query,
              simulation_requirement |-> simulation_requirement,
              sub_queries |-> <<query>>,
              semantic_facts |-> search.facts,
              entity_insights |-> [i \in 1..Len(nodes) |-> EntityInsight(nodes[i])],
              relationship_chains |-> [i \in 1..Len(edges) |-> RelationshipChain(edges[i])],
              total_facts |-> Len(search.facts),
              total_entities |-> Len(nodes),
              total_relationships |-> Len(edges)]

(***************************************************************************)
(* Retrieval calls over a graph written through the store.                 *)
(***************************************************************************)
FactG == <<"g">>
FactH == <<"h">>
QueryQ == <<"q">>
Queries == {EmptyStr, QueryQ}

\* The entities of the graphs retrieval reads: A and B in gA, C in gB.
ToolEntities ==
    <<LocalEntity(P, "gA", NameA, TypeT, SummaryS, None),
      LocalEntity(P, "gA", NameB, TypeT, EmptyStr, None),
      LocalEntity(P, "gB", NameC, TypeT, SummaryU, None)>>

\* Relations written before retrieval: with a fact, without one, and one of graph gB.
ToolRelations ==
    {LocalRelation(P, "gA", UuidA, UuidB, RelName, FactF, EmptyStr),
     LocalRelation(P, "gA", UuidB, UuidA, RelName, EmptyStr, EmptyStr),
     LocalRelation(P, "gA", UuidA, UuidB, RelName, FactG, EmptyStr),
     LocalRelation(P, "gB", UuidC, UuidC, RelName, FactH, EmptyStr)}

Point(graph_id, n, text) ==
    [project_id |-> P, graph_id |-> graph_id, chunk_id |-> <<"chunk_", n>>, text |-> text,
     type |-> "chunk"]

\* Contents of the chunk collection: empty, one chunk of gA, a chunk of gA without text beside
\* a chunk of gB, and two chunks of gA beside one of gB.
ToolPoints ==
    {<<>>,
     <<Point("gA", 1, <<"x">>)>>,
     <<Point("gA", 1, EmptyStr), Point("gB", 2, <<"y">>)>>,
     <<Point("gA", 1, <<"x">>), Point("gB", 2, <<"y">>), Point("gA", 3, <<"z">>)>>}

ToolCall(op, args, ret) ==
    /\ call' = [op |-> op, args |-> args, ret |-> ret]
    /\ UNCHANGED <<db, fresh, pre, nops, vec, build>>

\* self.graph_store in a call: the store as written, or a store that cannot be reached.
GraphStores == {db, Unreachable}

QuickSearch ==
    \E g \in GraphIds, query \in Queries, limit \in 0..MaxLimit :
        \E vs \in VectorStores(g), gs \in GraphStores :
            ToolCall("quick_search", <<g, query, limit, vs, gs>>,
                     quick_search(gs, vec.points, vs, g, query, limit))

PanoramaSearch ==
    \E g \in GraphIds, query \in Queries, include_expired \in BOOLEAN :
        \E vs \in VectorStores(g), gs \in GraphStores :
            ToolCall("panorama_search", <<g, query, include_expired, vs, gs>>,
                     panorama_search(gs, vec.points, vs, g, query, include_expired))

InsightForge ==
    \E g \in GraphIds, query \in Queries :
        \E vs \in VectorStores(g), gs \in GraphStores :
            ToolCall("insight_forge", <<g, query, EmptyStr, vs, gs>>,
                     insight_forge(gs, vec.points, vs, g, query, EmptyStr))

InitTools ==
    /\ db \in {upsert_relations(
                  upsert_entities(
                      create_graph(create_graph(EmptyDb, "gA", P, <<"n">>, EmptyOntology, <<"t", 1>>),
                                   "gB", P, <<"n">>, EmptyOntology, <<"t", 2>>),
                      ToolEntities, <<"t", 3>>),
                  rs, 0, <<"t", 4>>) : rs \in SeqUpTo(ToolRelations, MaxToolEdges)}
    /\ fresh = [graph_ids |-> {"gA", "gB"}, rels |-> MaxToolEdges]
    /\ pre = EmptyDb
    /\ call = [op |-> "none", args |-> <<>>, ret |-> None]
    /\ nops = 4
    /\ vec \in {[backend |-> b, points |-> ps, inits |-> 0] :
                  b \in {"qdrant", "none"}, ps \in ToolPoints}
    /\ build = IdleBuild(P, EmptyOntology, <<>>)

\* Retrieval writes nothing, so the state after a sequence of calls is the state after its
\* last call: one call per behaviour reaches every state.
NextTools ==
    /\ call.op = "none"
    /\ \/ QuickSearch
       \/ PanoramaSearch
       \/ InsightForge

SpecTools == InitTools /\ [][NextTools]_vars

(***************************************************************************)
(* Properties of retrieval.                                                *)
(***************************************************************************)
IsCall(op) == call.op = op
CallGraph == call.args[1]
CallLimit == call.args[3]
CallVectors == call.args[4]
CallStore == call.args[5]
QueriedEdges == get_graph_data(db, CallGraph).edges

\* facts is a subsequence of the edges' facts: the facts of edges taken in storage order.
InEdgeOrder(facts, edges) ==
    \E f \in [1..Len(facts) -> 1..Len(edges)] :
        /\ \A i, j \in 1..Len(facts) : i < j => f[i] < f[j]
        /\ \A i \in 1..Len(facts) : facts[i] = edges[f[i]].fact

HasFact(edges) == \E i \in 1..Len(edges) : edges[i].fact # EmptyStr

\* C15: without a vector index, and its graph store answering, quick_search returns at most `limit` facts, each the non-empty
\* fact of an edge of the queried graph, in the order the edges are stored; total_count is the
\* number of facts; a graph without a non-empty fact gives the empty list.
C15_QuickSearchFallback ==
    (IsCall("quick_search") /\ ~ CallVectors.present /\ CallStore # Unreachable) =>
        /\ ~ call.ret.raised
        /\ Len(call.ret.facts) <= CallLimit
        /\ \A i \in 1..Len(call.ret.facts) : call.ret.facts[i] # EmptyStr
        /\ InEdgeOrder(call.ret.facts, QueriedEdges)
        /\ call.ret.total_count = Len(call.ret.facts)
        /\ ~ HasFact(QueriedEdges) => call.ret.facts = <<>>

\* quick_search without a vector index returned two facts of a graph of three edges, one of
\* them without a fact, while the other graph has an edge too.
C15_Witness ==
    /\ IsCall("quick_search")
    /\ ~ CallVectors.present
    /\ CallGraph = "gA"
    /\ Len(QueriedEdges) = 2
    /\ Len(db.rels) = 3
    /\ ~ call.ret.raised
    /\ call.ret.facts = <<FactF, FactG>>

\* C16: with limit >= 1 and no text from the vector index, quick_search returns a fact whenever
\* the graph, read without error, has an edge with a non-empty fact.
C16_NeverEmpty ==
    (/\ IsCall("quick_search")
     /\ CallStore # Unreachable
     /\ CallLimit >= 1
     /\ VectorFacts(vec.points, CallVectors, CallGraph, CallLimit) = <<>>
     /\ HasFact(QueriedEdges))
        => call.ret.facts # <<>>

\* The result of the call made again by a service without a vector store.
WithoutVectors ==
    CASE IsCall("quick_search") ->
           quick_search(CallStore, vec.points, NoVectorStore, CallGraph, call.args[2], CallLimit)
      [] IsCall("panorama_search") ->
           panorama_search(CallStore, vec.points, NoVectorStore, CallGraph, call.args[2], call.args[3])
      [] IsCall("insight_forge") ->
           insight_forge(CallStore, vec.points, NoVectorStore, CallGraph, call.args[2], call.args[3])

\* C17: a retrieval call whose vector search raises, its graph store answering, does not
\* raise, and returns what the same call returns without a vector index.
C17_VectorErrorsNotSurfaced ==
    (/\ call.op \in {"quick_search", "panorama_search", "insight_forge"}
     /\ CallVectors.present
     /\ CallVectors.raised
     /\ CallStore # Unreachable)
        => /\ ~ call.ret.raised
           /\ call.ret = WithoutVectors

\* insight_forge returned a fact of the graph although the vector search raised, in a
\* collection that holds chunks of that graph.
C17_Witness ==
    /\ IsCall("insight_forge")
    /\ CallVectors.present
    /\ CallVectors.raised
    /\ call.args[2] = QueryQ
    /\ MatchingPoints(vec.points, CallGraph) # {}
    /\ ~ call.ret.raised
    /\ call.ret.semantic_facts # <<>>

(***************************************************************************)
(* extract applied to what the LLM may return.                             *)
(***************************************************************************)
MaxRaw == 2                          \* the most entities, and relations, of a response

\* Raw entities: well formed, padded, without a name or a type, with a name or a type of
\* blanks only, of a type outside the ontology, without summary and attributes.
AttrsTwo == << <<"k", "v">>, <<"j", "w">> >>       \* {"k": "v", "j": "w"}

RawEntities ==
    {RawEntity(NameA, TypeT, SummaryS, AttrsTwo),
     RawEntity(<<" ", "B", " ">>, TypeT, <<" ", "s">>, None),
     RawEntity(NameC, TypeU, None, None),
     RawEntity(None, TypeT, SummaryS, None),
     RawEntity(EmptyStr, TypeT, SummaryS, None),
     RawEntity(NameA, None, SummaryS, None),
     RawEntity(NameA, EmptyStr, None, None),
     RawEntity(<<" ">>, TypeT, SummaryU, None),
     RawEntity(NameB, <<" ">>, None, None)}

\* Raw relations: well formed, of a label outside the ontology, with a source of blanks only,
\* padded, without a target.
RawRelations ==
    {RawRelation(NameA, TypeT, NameB, TypeT, RelName, FactF),
     RawRelation(NameA, TypeT, NameB, TypeT, <<"X">>, None),
     RawRelation(<<" ">>, TypeT, NameB, TypeT, RelName, FactF),
     RawRelation(<<" ", "A">>, TypeT, NameB, TypeT, RelName, <<"f", " ">>),
     RawRelation(NameA, TypeT, None, TypeT, RelName, FactF)}

ExtractResponses ==
    {[raised |-> FALSE, error |-> None, entities |-> es, relations |-> rs] :
        es \in SeqUpTo(RawEntities, MaxRaw), rs \in SeqUpTo(RawRelations, MaxRaw)}
    \cup {[raised |-> TRUE, error |-> LLMError, entities |-> <<>>, relations |-> <<>>]}

Ontologies == {EmptyOntology, BuildOntology}

Extract ==
    /\ \E response \in ExtractResponses, ontology \in Ontologies :
          call' = [op |-> "extract", args |-> <<response, ontology>>,
                   ret |-> extract(response, ontology)]
    /\ UNCHANGED <<db, fresh, pre, nops, vec, build>>

InitExtract ==
    /\ db = EmptyDb
    /\ fresh = [graph_ids |-> {}, rels |-> 0]
    /\ pre = EmptyDb
    /\ call = [op |-> "none", args |-> <<>>, ret |-> None]
    /\ nops = 0
    /\ vec = NoVectors("none")
    /\ build = IdleBuild(P, EmptyOntology, <<>>)

\* extract keeps no state: every call starts from the same state.
NextExtract ==
    /\ call.op = "none"
    /\ Extract

SpecExtract == InitExtract /\ [][NextExtract]_vars

\* A text that is present and not empty.
NonEmpty(x) == x # None /\ x # EmptyStr

DeclaredEntityTypes(ontology) == Range(TypeNames(ontology.entity_types))

\* What C18 asks of an entity of the output.
WellFormedEntity(e, ontology) ==
    /\ NonEmpty(e.name)
    /\ NonEmpty(e.type)
    /\ DeclaredEntityTypes(ontology) # {} => e.type \in DeclaredEntityTypes(ontology)

\* The raw entity as the output shows it when it is kept: trimmed, empty defaults.
Defaulted(raw) ==
    [name |-> Strip(raw.name), type |-> Strip(raw.type),
     summary |-> IF raw.summary = None THEN EmptyStr ELSE Strip(raw.summary),
     attributes |-> IF raw.attributes = None THEN EmptyDict ELSE raw.attributes]

\* The raw entities whose output form is well formed, in their order.
RECURSIVE KeepWellFormed(_, _)
KeepWellFormed(raws, ontology) ==
    IF raws = <<>> THEN <<>>
    ELSE (IF raws[1].name # None /\ raws[1].type # None
             /\ WellFormedEntity(Defaulted(raws[1]), ontology)
          THEN <<Defaulted(raws[1])>> ELSE <<>>)
         \o KeepWellFormed(Tail(raws), ontology)

\* C18: every entity extract returns has a non-empty name and type, of a declared type when
\* the ontology declares types; the raw entities violating this are dropped, the others kept
\* in order with summary and attributes defaulted to empty.
C18_SanitizedEntities ==
    (call.op = "extract" /\ ~ call.ret.raised) =>
        /\ \A i \in 1..Len(call.ret.entities) :
              WellFormedEntity(call.ret.entities[i], call.args[2])
        /\ call.ret.entities = KeepWellFormed(call.args[1].entities, call.args[2])

(***************************************************************************)
(* _stable_entity_uuid applied to tenants, types and names.                *)
(***************************************************************************)
MaxNameLen == 2                      \* the longest name resolved

NameChars == {" ", "a", "A", ":"}

\* The names: missing, and every text of at most MaxNameLen characters.
ResolveNames == {None} \cup SeqUpTo(NameChars, MaxNameLen)

\* The types: two plain ones and two that hold the separator.
ResolveTypes == {TypeT, TypeU, <<"T", ":">>, <<"T", ":", "a">>}

Resolve ==
    /\ \E project_id \in Projects, entity_type \in ResolveTypes, name \in ResolveNames :
          call' = [op |-> "resolve", args |-> <<project_id, entity_type, name>>,
                   ret |-> stable_entity_uuid(project_id, entity_type, name)]
    /\ UNCHANGED <<db, fresh, pre, nops, vec, build>>

\* _stable_entity_uuid keeps no state: every call starts from the same state.
NextResolve ==
    /\ call.op = "none"
    /\ Resolve

SpecResolve == InitExtract /\ [][NextResolve]_vars

\* The trimmed, lower-cased form of a name; a missing name has the form of the empty one.
TrimFold(name) == IF name = None THEN EmptyStr ELSE Lower(Strip(name))

\* C19: the key depends on the name only through its trimmed, lower-cased form: every name of
\* that form gives, for the same tenant and type, the key the call returned; a missing or
\* empty name gives a key too.
C19_ResolveNormalized ==
    call.op = "resolve" =>
        /\ \A name \in ResolveNames :
              TrimFold(name) = TrimFold(call.args[3])
                  => stable_entity_uuid(call.args[1], call.args[2], name) = call.ret
        /\ call.ret[1] = "ent_"
        /\ call.ret # None

\* " A" was resolved to the key of "a"; so are the missing and the empty name to one key.
C19_Witness ==
    /\ call.op = "resolve"
    /\ call.args[3] = <<" ", "A">>
    /\ call.ret = stable_entity_uuid(call.args[1], call.args[2], <<"a">>)
    /\ stable_entity_uuid(P, TypeT, None) = stable_entity_uuid(P, TypeT, <<" ">>)

\* C20: for a fixed tenant, inputs whose (type, normalized name) pairs differ never get the
\* same key, the digest being collision-free.
C20_ResolveInjective ==
    call.op = "resolve" =>
        \A entity_type \in ResolveTypes, name \in ResolveNames :
            (entity_type # call.args[2] \/ TrimFold(name) # TrimFold(call.args[3]))
                => stable_entity_uuid(call.args[1], entity_type, name) # call.ret

(***************************************************************************)
(* Two builds against one store.  Each builder runs in a thread of its own *)
(* and owns its fields; the store is shared, and every store call of one   *)
(* build may fall between any two store calls of the other.                *)
(***************************************************************************)
\* What the LLM returns for the one chunk of a concurrent build: A and B with A -> B, A alone
\* under another description, C alone.
ConcResponses ==
    {[raised |-> FALSE, error |-> None,
      entities |-> <<RawEntity(NameA, TypeT, SummaryS, None), RawEntity(NameB, TypeT, None, None)>>,
      relations |-> <<RawRelation(NameA, TypeT, NameB, TypeT, RelName, FactF)>>],
     [raised |-> FALSE, error |-> None,
      entities |-> <<RawEntity(NameA, TypeT, SummaryU, None)>>, relations |-> <<>>],
     [raised |-> FALSE, error |-> None,
      entities |-> <<RawEntity(NameC, TypeT, SummaryS, None)>>, relations |-> <<>>]}

Builders == {1, 2}

\* f"chunk_{uuid4().hex}": the chunk ids of two builds differ.
ConcChunkId(b) == <<"chunk_", b.graph_id, b.idx>>

\* A step of builder i: the store call it makes and the fields it keeps.
ConcCall(i, op, args, ret, d, f, b) ==
    /\ StoreCall(op, args, ret, d, f)
    /\ build' = [build EXCEPT ![i] = b]
    /\ UNCHANGED vec

ConcCreateGraph(i) ==
    /\ build[i].pc = "start"
    /\ \E g \in GraphIds \ fresh.graph_ids :
          ConcCall(i, "create_graph", <<build[i].project_id>>, g,
                   create_graph(db, g, build[i].project_id, <<"n">>, build[i].ontology, NowIso),
                   UseGraphId(fresh, g),
                   [build[i] EXCEPT !.graph_id = g, !.idx = 1, !.pc = "persist_chunk"])

ConcPersistChunk(i) ==
    /\ build[i].pc = "persist_chunk"
    /\ LET b == build[i]
       IN  ConcCall(i, "upsert_chunk", <<b.project_id, b.graph_id, ConcChunkId(b), b.texts[b.idx]>>,
                    None,
                    upsert_chunk(db, b.project_id, b.graph_id, ConcChunkId(b), b.texts[b.idx], NowIso),
                    fresh,
                    [b EXCEPT !.chunk_id = ConcChunkId(b), !.pc = "extract"])

ConcExtract(i) ==
    /\ build[i].pc = "extract"
    /\ \E response \in ConcResponses :
          LET out == extract(response, build[i].ontology)
          IN  build' = [build EXCEPT ![i] =
                           [@ EXCEPT !.pc = "upsert_entities",
                                     !.extracted = [entities |-> out.entities,
                                                    relations |-> out.relations]]]
    /\ UNCHANGED <<db, fresh, pre, call, nops, vec>>

ConcUpsertEntities(i) ==
    /\ build[i].pc = "upsert_entities"
    /\ LET b == build[i]
           entities == ChunkEntities(b.extracted, b.project_id, b.graph_id, NowIso)
       IN  ConcCall(i, "upsert_entities", <<entities>>, upsert_entities_result(entities),
                    upsert_entities(db, entities, NowIso), fresh,
                    [b EXCEPT !.entities = entities,
                              !.entity_uuids = upsert_entities_result(entities),
                              !.pc = "link_mentions"])

ConcLinkMentions(i) ==
    /\ build[i].pc = "link_mentions"
    /\ LET b == build[i]
       IN  ConcCall(i, "link_mentions", <<b.chunk_id, b.entity_uuids, b.graph_id>>, None,
                    link_mentions(db, b.chunk_id, b.entity_uuids, b.graph_id), fresh,
                    [b EXCEPT !.pc = "upsert_relations"])

ConcUpsertRelations(i) ==
    /\ build[i].pc = "upsert_relations"
    /\ LET b == build[i]
           relations == ResolveRelations(b.extracted.relations, b.entities,
                                         b.project_id, b.graph_id, NowIso)
       IN  ConcCall(i, "upsert_relations", <<relations>>, None,
                    upsert_relations(db, relations, fresh.rels, NowIso),
                    [fresh EXCEPT !.rels = @ + Len(relations)],
                    [b EXCEPT !.pc = "finalize"])

ConcFinalize(i) ==
    /\ build[i].pc = "finalize"
    /\ ConcCall(i, "get_graph_data", <<build[i].graph_id>>, get_graph_data(db, build[i].graph_id),
                db, fresh,
                [build[i] EXCEPT !.graph_data = get_graph_data(db, build[i].graph_id), !.pc = "done"])

\* Two builders over an empty store, of one tenant or of two, with one chunk each.
InitConcurrent ==
    /\ db = EmptyDb
    /\ fresh = [graph_ids |-> {}, rels |-> 0]
    /\ pre = EmptyDb
    /\ call = [op |-> "none", args |-> <<>>, ret |-> None]
    /\ nops = 0
    /\ vec = NoVectors("none")
    /\ build \in {<<IdleBuild(P, BuildOntology, <<ChunkText(1)>>),
                    IdleBuild(project_id, BuildOntology, <<ChunkText(2)>>)>> :
                      project_id \in Projects}

NextConcurrent ==
    \E i \in Builders :
        \/ ConcCreateGraph(i)
        \/ ConcPersistChunk(i)
        \/ ConcExtract(i)
        \/ ConcUpsertEntities(i)
        \/ ConcLinkMentions(i)
        \/ ConcUpsertRelations(i)
        \/ ConcFinalize(i)

SpecConcurrent == InitConcurrent /\ [][NextConcurrent]_vars

\* The store a build leaves when it runs alone, from the empty store.
BuildAlone(b) ==
    LET d0 == create_graph(EmptyDb, b.graph_id, b.project_id, <<"n">>, b.ontology, NowIso)
        d1 == upsert_chunk(d0, b.project_id, b.graph_id, ConcChunkId(b), b.texts[1], NowIso)
        entities == ChunkEntities(b.extracted, b.project_id, b.graph_id, NowIso)
        d2 == upsert_entities(d1, entities, NowIso)
        d3 == link_mentions(d2, ConcChunkId(b), upsert_entities_result(entities), b.graph_id)
        relations == ResolveRelations(b.extracted.relations, entities,
                                      b.project_id, b.graph_id, NowIso)
    IN  upsert_relations(d3, relations, 0, NowIso)

\* The nodes and the relations a graph holds, without write times and random edge ids.
PersistedNodes(d, graph_id) ==
    {[uuid |-> n.uuid, name |-> n.name, labels |-> n.labels, summary |-> n.summary,
      attributes |-> n.attributes] : n \in Range(get_graph_data(d, graph_id).nodes)}

PersistedEdges(d, graph_id) ==
    {[name |-> e.name, fact |-> e.fact, source_node_uuid |-> e.source_node_uuid,
      target_node_uuid |-> e.target_node_uuid] : e \in Range(get_graph_data(d, graph_id).edges)}

\* C21: when both builds have ended, each graph holds the nodes and the relations its build
\* leaves when it runs alone, whatever the interleaving of the store calls of the two builds.
C21_ConcurrentBuildsIsolated ==
    (\A i \in Builders : build[i].pc = "done") =>
        \A i \in Builders :
            /\ PersistedNodes(db, build[i].graph_id)
                   = PersistedNodes(BuildAlone(build[i]), build[i].graph_id)
            /\ PersistedEdges(db, build[i].graph_id)
                   = PersistedEdges(BuildAlone(build[i]), build[i].graph_id)

(***************************************************************************)
(* Config.validate: a pure function of six class attributes.               *)
(***************************************************************************)
\* The messages, named by the setting they are about.
MsgLlmKey == "LLM_API_KEY"
MsgGraphBackend == "GRAPH_BACKEND"
MsgZepKey == "ZEP_API_KEY"
MsgNeo4jPassword == "NEO4J_PASSWORD"
MsgVectorBackend == "VECTOR_BACKEND"
MsgQdrantUrl == "QDRANT_URL"

\* errors.append(message) when the condition holds.
ErrorIf(condition, message) == IF condition THEN <<message>> ELSE <<>>

\* validate were it to stop at the first problem it finds.
validate_first_only(cfg) ==
    IF Falsy(cfg.LLM_API_KEY) THEN <<MsgLlmKey>>
    ELSE IF cfg.GRAPH_BACKEND \notin {"zep", "local"} THEN <<MsgGraphBackend>>
    ELSE IF cfg.GRAPH_BACKEND = "zep" THEN ErrorIf(Falsy(cfg.ZEP_API_KEY), MsgZepKey)
    ELSE IF Falsy(cfg.NEO4J_PASSWORD) THEN <<MsgNeo4jPassword>>
    ELSE IF cfg.VECTOR_BACKEND \notin {"qdrant", "none"} THEN <<MsgVectorBackend>>
    ELSE ErrorIf(cfg.VECTOR_BACKEND = "qdrant" /\ Falsy(cfg.QDRANT_URL), MsgQdrantUrl)

validate(cfg) ==
    ErrorIf(Falsy(cfg.LLM_API_KEY), MsgLlmKey)
    \o ErrorIf(cfg.GRAPH_BACKEND \notin {"zep", "local"}, MsgGraphBackend)
    \o (IF cfg.GRAPH_BACKEND = "zep"
        THEN ErrorIf(Falsy(cfg.ZEP_API_KEY), MsgZepKey)
        ELSE <<>>)
    \o (IF cfg.GRAPH_BACKEND = "local"
        THEN ErrorIf(Falsy(cfg.NEO4J_PASSWORD), MsgNeo4jPassword)
             \o ErrorIf(cfg.VECTOR_BACKEND \notin {"qdrant", "none"}, MsgVectorBackend)
             \o (IF cfg.VECTOR_BACKEND = "qdrant"
                 THEN ErrorIf(Falsy(cfg.QDRANT_URL), MsgQdrantUrl)
                 ELSE <<>>)
        ELSE <<>>)

\* The settings validate reads: a key is missing (None), empty or set; a backend is one of the
\* supported ones or another word.
Configs ==
    [LLM_API_KEY    : {None, EmptyStr, <<"k">>},
     GRAPH_BACKEND  : {"zep", "local", "other"},
     ZEP_API_KEY    : {None, <<"z">>},
     NEO4J_PASSWORD : {None, <<"w">>},
     VECTOR_BACKEND : {"qdrant", "none", "other"},
     QDRANT_URL     : {EmptyStr, <<"u">>}]

Validate ==
    /\ \E cfg \in Configs :
          call' = [op |-> "validate", args |-> <<cfg>>, ret |-> validate(cfg)]
    /\ UNCHANGED <<db, fresh, pre, nops, vec, build>>

\* validate reads class attributes and writes nothing: every call starts from the same state.
NextConfig ==
    /\ call.op = "none"
    /\ Validate

SpecConfig == InitExtract /\ [][NextConfig]_vars

\* The rules a configuration violates at the same time, by the message of each.
ViolatedRules(cfg) ==
    {m \in {MsgLlmKey} : Falsy(cfg.LLM_API_KEY)}
    \cup {m \in {MsgGraphBackend} : cfg.GRAPH_BACKEND \notin {"zep", "local"}}
    \cup {m \in {MsgZepKey} : cfg.GRAPH_BACKEND = "zep" /\ Falsy(cfg.ZEP_API_KEY)}
    \cup {m \in {MsgNeo4jPassword} : cfg.GRAPH_BACKEND = "local" /\ Falsy(cfg.NEO4J_PASSWORD)}
    \cup {m \in {MsgVectorBackend} :
             cfg.GRAPH_BACKEND = "local" /\ cfg.VECTOR_BACKEND \notin {"qdrant", "none"}}
    \cup {m \in {MsgQdrantUrl} :
             cfg.GRAPH_BACKEND = "local" /\ cfg.VECTOR_BACKEND = "qdrant" /\ Falsy(cfg.QDRANT_URL)}

\* C22: validate returns a list that holds the message of every rule the configuration
\* violates, once each and nothing else; the list is empty only when no rule is violated.
C22_ValidateListsEveryProblem ==
    call.op = "validate" =>
        /\ Range(call.ret) = ViolatedRules(call.args[1])
        /\ Len(call.ret) = Cardinality(ViolatedRules(call.args[1]))
        /\ (call.ret = <<>>) <=> (ViolatedRules(call.args[1]) = {})

\* A configuration that violates three rules at once got three messages, and a valid one none.
C22_Witness ==
    /\ call.op = "validate"
    /\ call.ret = <<MsgLlmKey, MsgNeo4jPassword, MsgQdrantUrl>>
    /\ validate([LLM_API_KEY |-> <<"k">>, GRAPH_BACKEND |-> "local", ZEP_API_KEY |-> None,
                 NEO4J_PASSWORD |-> <<"w">>, VECTOR_BACKEND |-> "none",
                 QDRANT_URL |-> EmptyStr]) = <<>>

(***************************************************************************)
(* C23: what get_graph_data returns, over every state of the store.        *)
(***************************************************************************)
\* The graph id an entity of the store has now; None for a uuid the store does not hold.
GraphOf(uuid) ==
    IF \E e \in Range(db.nodes) : e.uuid = uuid
    THEN (CHOOSE e \in Range(db.nodes) : e.uuid = uuid).graph_id
    ELSE None

\* The positions of the stored relations that lie in graph g with both their endpoints.
RelationsWithin(g) ==
    {i \in 1..Len(db.rels) :
        /\ db.rels[i].graph_id = g
        /\ GraphOf(db.rels[i].source_uuid) = g
        /\ GraphOf(db.rels[i].target_uuid) = g}

\* C23: the snapshot of graph g lists each entity whose graph id is g, once, and nothing else;
\* it lists each relation whose own graph id and both endpoints' graph ids are g, once, and
\* nothing else; its counts are the lengths of its lists; and the snapshot of the graph that
\* create_graph has just returned is empty, whatever the store holds.
C23_SnapshotExact ==
    /\ \A g \in GraphIds :
          LET r == get_graph_data(db, g)
              stored == {i \in 1..Len(db.nodes) : db.nodes[i].graph_id = g}
          IN  /\ {n.uuid : n \in Range(r.nodes)} = {db.nodes[i].uuid : i \in stored}
              /\ Len(r.nodes) = Cardinality(stored)
              /\ \E f \in [1..Len(r.edges) -> RelationsWithin(g)] :
                    /\ \A i, j \in 1..Len(r.edges) : i # j => f[i] # f[j]
                    /\ \A i \in 1..Len(r.edges) :
                          /\ r.edges[i].uuid = db.rels[f[i]].uuid
                          /\ r.edges[i].source_node_uuid = db.rels[f[i]].source_uuid
                          /\ r.edges[i].target_node_uuid = db.rels[f[i]].target_uuid
              /\ Len(r.edges) = Cardinality(RelationsWithin(g))
              /\ r.node_count = Len(r.nodes)
              /\ r.edge_count = Len(r.edges)
    /\ call.op = "create_graph" =>
          /\ get_graph_data(db, call.ret).nodes = <<>>
          /\ get_graph_data(db, call.ret).edges = <<>>

\* A graph lists a node and leaves out a relation of its own graph id, an endpoint of which
\* is now in the other graph.
C23_Witness ==
    \E g \in GraphIds :
        /\ get_graph_data(db, g).node_count > 0
        /\ \E i \in 1..Len(db.rels) : db.rels[i].graph_id = g /\ i \notin RelationsWithin(g)
        /\ \E e \in Range(db.nodes) : e.graph_id # g

(***************************************************************************)
(* C24, C25: the order of the steps of one build.                          *)
(***************************************************************************)
\* The external calls of the build in the order made, without the progress updates and the
\* openings of the vector index.
StepLog == SelectSeq(build.log, LAMBDA e : e.call \notin {"progress", "vector_init"})

\* Event b is the step that comes right after event a in a build of N chunks.
StepFollows(a, b) ==
    \/ /\ a.call = "create_graph"
       /\ b = IF N = 0 THEN Event("get_graph_data", 0, TRUE) ELSE Event("upsert_chunk", 1, TRUE)
    \/ /\ a.call = "upsert_chunk"
       /\ b.chunk = a.chunk
       /\ b.call \in {"add_chunk", "llm"}
    \/ /\ a.call = "add_chunk"
       /\ b.chunk = a.chunk
       /\ b.call = "llm"
    \/ /\ a = Event("llm", a.chunk, TRUE)
       /\ b = Event("upsert_entities", a.chunk, TRUE)
    \/ /\ a.call = "upsert_entities"
       /\ b = Event("link_mentions", a.chunk, TRUE)
    \/ /\ a.call = "link_mentions"
       /\ b = Event("upsert_relations", a.chunk, TRUE)
    \/ /\ a.call = "upsert_relations"
       /\ b = IF a.chunk < N THEN Event("upsert_chunk", a.chunk + 1, TRUE)
              ELSE Event("get_graph_data", N, TRUE)

\* C24: the build creates the graph first; every later step is the one that follows the step
\* before it (persist, vector add, extract, upsert entities, link mentions, upsert relations
\* of chunk i, then chunk i + 1, then the final read); chunk i is the i-th input text; and a
\* build that is done extracted every chunk with success, read the snapshot last and returns it.
C24_StepOrder ==
    /\ StepLog # <<>> => StepLog[1] = Event("create_graph", 0, TRUE)
    /\ \A j \in 1..Len(StepLog) - 1 : StepFollows(StepLog[j], StepLog[j + 1])
    /\ \A c \in db.chunks :
          \E i \in 1..N : c.chunk_id = <<"chunk_", i>> /\ c.text = build.texts[i]
    /\ build.pc = "done" =>
          /\ StepLog[Len(StepLog)].call = "get_graph_data"
          /\ \A i \in 1..N : \E j \in 1..Len(StepLog) : StepLog[j] = Event("llm", i, TRUE)
          /\ \A j \in 1..Len(StepLog) : StepLog[j].call = "llm" => StepLog[j].ok
          /\ build.graph_data = get_graph_data(db, build.graph_id)

\* A build of two chunks is done, and it added a chunk to the vector index on its way.
C24_Witness ==
    /\ build.pc = "done"
    /\ N = 2
    /\ CallsOf("add_chunk") # {}
    /\ Len(StepLog) >= 12

\* C25: one builder opens the vector index at most once.
C25_VectorInitOnce ==
    /\ vec.inits <= 1
    /\ Cardinality(CallsOf("vector_init")) <= 1

(***************************************************************************)
(* C26: how many edges upsert_relations leaves.                            *)
(***************************************************************************)
\* The positions of a batch that add an edge if an edge is keyed by its uuid alone: both
\* endpoints are in the relation's graph, and the relation brings no uuid, or a uuid that no
\* stored edge and no earlier written relation of the batch has.
AddsNewKey(d, relations) ==
    {k \in 1..Len(relations) :
        /\ RelEndpointsExist(d, relations[k])
        /\ \/ Falsy(relations[k].uuid)
           \/ /\ \A r \in Range(d.rels) : r.uuid # relations[k].uuid
              /\ \A j \in 1..k - 1 :
                    RelEndpointsExist(d, relations[j]) => relations[j].uuid # relations[k].uuid}

\* C26: no two edges of the store have the same uuid, and a call of upsert_relations adds one
\* edge for every relation without a uuid whose endpoints are present and for every uuid
\* supplied for the first time, and no edge for a supplied uuid the store holds already.
C26_EdgeKeyedByUuid ==
    /\ \A i, j \in 1..Len(db.rels) : db.rels[i].uuid = db.rels[j].uuid => i = j
    /\ call.op = "upsert_relations" =>
          Len(db.rels) = Len(pre.rels) + Cardinality(AddsNewKey(pre, call.args[1]))

(***************************************************************************)
(* C27: the relations extract returns.                                     *)
(***************************************************************************)
DeclaredEdgeTypes(ontology) == Range(TypeNames(ontology.edge_types))

\* What C27 asks of a relation of the output.
WellFormedRelation(r, ontology) ==
    /\ NonEmpty(r.source)
    /\ NonEmpty(r.target)
    /\ NonEmpty(r.source_type)
    /\ NonEmpty(r.target_type)
    /\ NonEmpty(r.relation)
    /\ DeclaredEdgeTypes(ontology) # {} => r.relation \in DeclaredEdgeTypes(ontology)

\* The raw relation as the output shows it when it is kept: trimmed, empty defaults.
DefaultedRelation(raw) ==
    [source |-> Strip(raw.source), source_type |-> Strip(raw.source_type),
     target |-> Strip(raw.target), target_type |-> Strip(raw.target_type),
     relation |-> Strip(raw.relation),
     fact |-> IF raw.fact = None THEN EmptyStr ELSE Strip(raw.fact),
     attributes |-> IF raw.attributes = None THEN EmptyDict ELSE raw.attributes]

\* The raw relations whose output form is well formed, in their order.
RECURSIVE KeepWellFormedRelations(_, _)
KeepWellFormedRelations(raws, ontology) ==
    IF raws = <<>> THEN <<>>
    ELSE (IF /\ None \notin {raws[1].source, raws[1].target, raws[1].source_type,
                             raws[1].target_type, raws[1].relation}
             /\ WellFormedRelation(DefaultedRelation(raws[1]), ontology)
          THEN <<DefaultedRelation(raws[1])>> ELSE <<>>)
         \o KeepWellFormedRelations(Tail(raws), ontology)

\* C27: every relation extract returns has a non-empty source, target, source type, target
\* type and label, of a declared label when the ontology declares labels; the raw relations
\* violating this are dropped and the others kept in order.
C27_SanitizedRelations ==
    (call.op = "extract" /\ ~ call.ret.raised) =>
        /\ \A i \in 1..Len(call.ret.relations) :
              WellFormedRelation(call.ret.relations[i], call.args[2])
        /\ call.ret.relations = KeepWellFormedRelations(call.args[1].relations, call.args[2])

(***************************************************************************)
(* C28: a failure of the graph store in a retrieval call.                  *)
(***************************************************************************)
\* C28: a retrieval call that reads a graph store which raises, raises: quick_search when the
\* vector index gave it no text, panorama_search and insight_forge always.
C28_StoreErrorsSurfaced ==
    /\ (/\ IsCall("quick_search")
        /\ CallStore = Unreachable
        /\ VectorFacts(vec.points, CallVectors, CallGraph, CallLimit) = <<>>)
          => call.ret.raised
    /\ (call.op \in {"panorama_search", "insight_forge"} /\ CallStore = Unreachable)
          => call.ret.raised

\* quick_search raised on its fallback path, the vector index having raised before the graph
\* store did.
C28_Witness ==
    /\ IsCall("quick_search")
    /\ CallStore = Unreachable
    /\ CallVectors.present
    /\ CallVectors.raised
    /\ CallLimit >= 1
    /\ call.ret.raised

(***************************************************************************)
(* C29, C30: what panorama_search returns.                                 *)
(***************************************************************************)
\* C29: a panorama has no historical fact and historical_count 0, whether include_expired is
\* set or not, and its total_nodes, total_edges and active_count are the lengths of its lists.
C29_PanoramaCounts ==
    (IsCall("panorama_search") /\ ~ call.ret.raised) =>
        /\ call.ret.historical_facts = <<>>
        /\ call.ret.historical_count = 0
        /\ call.ret.total_nodes = Len(call.ret.all_nodes)
        /\ call.ret.total_edges = Len(call.ret.all_edges)
        /\ call.ret.active_count = Len(call.ret.active_facts)

\* A panorama with include_expired set, of a graph with two edges and a fact.
C29_Witness ==
    /\ IsCall("panorama_search")
    /\ call.args[3] = TRUE
    /\ ~ call.ret.raised
    /\ call.ret.total_edges = 2
    /\ call.ret.total_nodes = 2
    /\ call.ret.active_count >= 1

\* The non-empty texts the index returned to the call, in rank order: none without a query,
\* without an index, or when the search raised.
PanoramaTexts ==
    IF call.args[2] # EmptyStr /\ CallVectors.present /\ ~ CallVectors.raised
    THEN LET texts == [i \in 1..Len(CallVectors.ranking) |->
                          vec.points[CallVectors.ranking[i]].text]
         IN  SelectSeq(texts, LAMBDA t : t # EmptyStr)
    ELSE <<>>

\* C30: the active facts of a panorama are the texts the index returned, when there is a
\* query, an index and at least one non-empty text; otherwise they are the non-empty facts of
\* all the edges of the graph in storage order.  In both cases the panorama lists every node
\* and every edge of the snapshot.
C30_PanoramaFactSource ==
    (IsCall("panorama_search") /\ ~ call.ret.raised) =>
        /\ PanoramaTexts # <<>> => call.ret.active_facts = PanoramaTexts
        /\ PanoramaTexts = <<>> =>
              /\ InEdgeOrder(call.ret.active_facts, QueriedEdges)
              /\ Len(call.ret.active_facts)
                    = Cardinality({i \in 1..Len(QueriedEdges) : QueriedEdges[i].fact # EmptyStr})
              /\ \A i \in 1..Len(call.ret.active_facts) : call.ret.active_facts[i] # EmptyStr
        /\ [i \in 1..Len(call.ret.all_nodes) |-> call.ret.all_nodes[i].uuid]
              = [i \in 1..Len(get_graph_data(db, CallGraph).nodes) |->
                    get_graph_data(db, CallGraph).nodes[i].uuid]
        /\ [i \in 1..Len(call.ret.all_edges) |-> call.ret.all_edges[i].uuid]
              = [i \in 1..Len(QueriedEdges) |-> QueriedEdges[i].uuid]

\* A panorama whose facts are two texts of the index, of a graph with an edge that has a
\* fact; the index is there, so an empty query would have given the edge facts.
C30_Witness ==
    /\ IsCall("panorama_search")
    /\ ~ call.ret.raised
    /\ call.args[2] = QueryQ
    /\ Len(PanoramaTexts) = 2
    /\ call.ret.active_facts = PanoramaTexts
    /\ HasFact(QueriedEdges)
    /\ call.ret.total_edges >= 1

(***************************************************************************)
(* insight_forge over graphs larger than its limits.                       *)
(***************************************************************************)
MaxInsightNodes == 11                \* nodes of the large graph: above the node limit
MaxInsightEdges == 21                \* edges of the large graph: above both edge limits

\* The i-th entity of the large graph: a name of i letters.
InsightEntities ==
    [i \in 1..MaxInsightNodes |->
        LocalEntity(P, "gA", [k \in 1..i |-> "e"], TypeT, SummaryS, None)]

\* The i-th relation of the large graph, from one entity to the next, each with a fact.
InsightRelations ==
    [i \in 1..MaxInsightEdges |->
        LocalRelation(P, "gA",
                      EntityUuid(InsightEntities[((i - 1) % MaxInsightNodes) + 1]),
                      EntityUuid(InsightEntities[(i % MaxInsightNodes) + 1]),
                      RelName, FactF, EmptyStr)]

\* The store after create_graph, upsert_entities(InsightEntities) and
\* upsert_relations(InsightRelations): the identities differ, so each entity made a node, and
\* the relations bring no uuid, so each made an edge.
LargeGraph ==
    [create_graph(EmptyDb, "gA", P, <<"n">>, EmptyOntology, <<"t", 1>>) EXCEPT
        !.nodes = [i \in 1..MaxInsightNodes |->
                      SetEntity(NewEntityNode(EntityUuid(InsightEntities[i])),
                                EntityParams(InsightEntities[i], <<"t", 2>>))],
        !.rels = [i \in 1..MaxInsightEdges |->
                     SetRelation(None, InsightRelations[i], RandomRelUuid(i), <<"t", 3>>)]]

\* A service without a vector index over the large graph.
InitLargeGraph ==
    /\ db = LargeGraph
    /\ fresh = [graph_ids |-> {"gA"}, rels |-> MaxInsightEdges]
    /\ pre = EmptyDb
    /\ call = [op |-> "none", args |-> <<>>, ret |-> None]
    /\ nops = 3
    /\ vec = NoVectors("none")
    /\ build = IdleBuild(P, EmptyOntology, <<>>)

InitInsight == InitTools \/ InitLargeGraph

\* insight_forge writes nothing: every call starts from the same state.
NextInsight ==
    /\ call.op = "none"
    /\ InsightForge

SpecInsight == InitInsight /\ [][NextInsight]_vars

Min(a, b) == IF a <= b THEN a ELSE b

C32_KeysInInputOrder ==
    call.op = "upsert_entities" =>
        /\ Len(call.ret) = Len(call.args[1])
        /\ \A i \in 1..Len(call.args[1]) :
              call.ret[i] = stable_entity_uuid(call.args[1][i].project_id,
                                               call.args[1][i].entity_type,
                                               call.args[1][i].name)
        /\ call.args[1] = <<>> => (call.ret = <<>> /\ db = pre)

\* A call given one identity under two spellings returned its key twice.
C32_Witness ==
    /\ call.op = "upsert_entities"
    /\ Len(call.args[1]) = 2
    /\ call.args[1][1].name # call.args[1][2].name
    /\ call.ret[1] = call.ret[2]
    /\ Len(db.nodes) = 1

\* A call given nothing, on a store that holds a node.
C32_EmptyCall ==
    /\ call.op = "upsert_entities"
    /\ call.args[1] = <<>>
    /\ db.nodes # <<>>


(***************************************************************************)
(* link_mentions alone: lists with repeated and foreign identity keys.     *)
(***************************************************************************)
MaxMentionCalls == 3   \* link_mentions calls per behaviour of SpecMentions
MaxMentionList == 2    \* identity keys per link_mentions call

\* Both graphs with their chunks; A in gA, and B in gA, in gB or nowhere.
MentionStores ==
    LET g1 == create_graph(EmptyDb, "gA", P, <<"n">>, EmptyOntology, <<"t", 0>>)
        g2 == create_graph(g1, "gB", P, <<"n">>, EmptyOntology, <<"t", 0>>)
        c1 == upsert_chunk(g2, P, "gA", ChunkIdOf("gA"), TextX, <<"t", 0>>)
        c2 == upsert_chunk(c1, P, "gB", ChunkIdOf("gB"), TextX, <<"t", 0>>)
        a  == LocalEntity(P, "gA", NameA, TypeT, SummaryS, None)
    IN  {upsert_entities(c2, es, <<"t", 0>>) :
            es \in {<<a>>,
                    <<a, LocalEntity(P, "gA", NameB, TypeT, SummaryS, None)>>,
                    <<a, LocalEntity(P, "gB", NameB, TypeT, SummaryS, None)>>}}

InitMentions ==
    /\ db \in MentionStores
    /\ fresh = [graph_ids |-> GraphIds, rels |-> 0]
    /\ pre = EmptyDb
    /\ call = [op |-> "none", args |-> <<>>, ret |-> None]
    /\ nops = 0
    /\ vec = NoVectors("none")
    /\ build = IdleBuild(P, EmptyOntology, <<>>)

NextMentions ==
    /\ nops < MaxMentionCalls
    /\ LinkMentionsOf(SeqUpTo({UuidA, UuidB}, MaxMentionList))

SpecMentions == InitMentions /\ [][NextMentions]_vars

\* MATCH (c:Chunk {chunk_id: $chunk_id, graph_id: $graph_id})
ChunkInGraph(d, chunk_id, graph_id) ==
    \E c \in d.chunks : c.chunk_id = chunk_id /\ c.graph_id = graph_id

\* C33: after link_mentions(chunk, keys, graph) on a chunk of that graph there is exactly one
\* mentions edge from the chunk to each listed entity that exists in the graph, however often
\* the key is listed and however often the call was made before; no other edge is added or
\* removed and nothing but mentions edges changes; with an empty key list the store is as it
\* was.  No (chunk, entity) pair ever carries more than one mentions edge.
C33_LinkMentions ==
    /\ \A m \in BagToSet(db.mentions) : CopiesIn(m, db.mentions) = 1
    /\ call.op = "link_mentions" =>
          LET chunk_id == call.args[1]
              keys     == call.args[2]
              graph_id == call.args[3]
              linked   == {<<chunk_id, u>> : u \in {v \in Range(keys) : EntityInGraph(pre, v, graph_id)}}
          IN  /\ keys = <<>> => db = pre
              /\ [db EXCEPT !.mentions = EmptyBag] = [pre EXCEPT !.mentions = EmptyBag]
              /\ ChunkInGraph(pre, chunk_id, graph_id) =>
                    BagToSet(db.mentions) = BagToSet(pre.mentions) \cup linked
              /\ ~ ChunkInGraph(pre, chunk_id, graph_id) => db = pre

\* C33 witness: a call that lists the same key twice, after an earlier call that linked it,
\* with a listed entity of another graph that gets no edge.
C33_Witness ==
    /\ call.op = "link_mentions"
    /\ call.args[2] = <<UuidA, UuidA>>
    /\ call.args[3] = "gA"
    /\ BagIn(<<"c1", UuidA>>, pre.mentions)
    /\ CopiesIn(<<"c1", UuidA>>, db.mentions) = 1

\* C33: a listed entity that is not in the given graph gets no edge.
C33_ForeignEntitySkipped ==
    /\ call.op = "link_mentions"
    /\ call.args[2] = <<UuidA, UuidB>>
    /\ call.args[3] = "gA"
    /\ EntityInGraph(pre, UuidB, "gB")
    /\ BagToSet(db.mentions) = {<<"c1", UuidA>>}


(***************************************************************************)
(* upsert_chunk alone: the same chunk id written again with another text   *)
(* or under another graph id.                                              *)
(***************************************************************************)
MaxChunkCalls == 3     \* upsert_chunk calls per behaviour of SpecChunks

TextY == <<"y">>

\* gA alone, or gA and gB: a chunk written under gB in the first store has no Graph node.
InitChunks ==
    /\ db \in {create_graph(EmptyDb, "gA", P, <<"n">>, EmptyOntology, <<"t", 0>>),
               create_graph(create_graph(EmptyDb, "gA", P, <<"n">>, EmptyOntology, <<"t", 0>>),
                            "gB", P, <<"n">>, EmptyOntology, <<"t", 0>>)}
    /\ fresh = [graph_ids |-> GraphIds, rels |-> 0]
    /\ pre = EmptyDb
    /\ call = [op |-> "none", args |-> <<>>, ret |-> None]
    /\ nops = 0
    /\ vec = NoVectors("none")
    /\ build = IdleBuild(P, EmptyOntology, <<>>)

NextChunks ==
    /\ nops < MaxChunkCalls
    /\ UpsertChunkOf([g \in GraphIds |-> {"c1", "c2"}], {TextX, TextY})

SpecChunks == InitChunks /\ [][NextChunks]_vars

\* The chunk records of a store with one chunk id.
ChunkRecords(d, chunk_id) == {c \in d.chunks : c.chunk_id = chunk_id}

\* The HAS_CHUNK edges of a store into one chunk.
OwnershipEdges(d, chunk_id) == KeepEdges(d.has_chunk, LAMBDA h : h[2] = chunk_id)

\* C34: after upsert_chunk(chunk, graph, text) there is exactly one chunk record with that
\* chunk id; it holds the text and graph id of this call and the creation timestamp of the
\* first call that wrote the chunk id; when the Graph record exists there is exactly one
\* ownership edge from it to the chunk, and when the chunk id was never written under
\* another graph id that is the chunk's only ownership edge.  Other chunks, other edges and
\* everything else in the store are as they were.
C34_UpsertChunkIdempotent ==
    call.op = "upsert_chunk" =>
        LET graph_id == call.args[2]
            chunk_id == call.args[3]
            text     == call.args[4]
            before   == ChunkRecords(pre, chunk_id)
            after    == ChunkRecords(db, chunk_id)
        IN  /\ Cardinality(after) = 1
            /\ \A c \in after :
                  /\ c.text = text
                  /\ c.graph_id = graph_id
                  /\ c.created_at = IF before = {} THEN <<"t", nops>>
                                    ELSE (CHOOSE b \in before : TRUE).created_at
            /\ db.chunks \ after = pre.chunks \ before
            /\ GraphExists(pre, graph_id) => CopiesIn(<<graph_id, chunk_id>>, db.has_chunk) = 1
            /\ (GraphExists(pre, graph_id)
                   /\ \A h \in BagToSet(OwnershipEdges(pre, chunk_id)) : h[1] = graph_id)
                  => BagCardinality(OwnershipEdges(db, chunk_id)) = 1
            /\ \A h \in BagToSet(pre.has_chunk) \cup BagToSet(db.has_chunk) :
                  h # <<graph_id, chunk_id>> => CopiesIn(h, db.has_chunk) = CopiesIn(h, pre.has_chunk)
            /\ [db EXCEPT !.chunks = {}, !.has_chunk = EmptyBag]
                 = [pre EXCEPT !.chunks = {}, !.has_chunk = EmptyBag]

\* C34 witness: the third call for one chunk id and graph id, with a text other than the one
\* stored: one record, the new text, the timestamp of the first call, one ownership edge.
C34_Witness ==
    /\ call.op = "upsert_chunk"
    /\ call.args[2] = "gA"
    /\ call.args[3] = "c1"
    /\ call.args[4] = TextY
    /\ nops = 3
    /\ \E b \in pre.chunks : b.chunk_id = "c1" /\ b.graph_id = "gA" /\ b.text = TextX
                             /\ b.created_at = <<"t", 1>>
    /\ \E c \in db.chunks : c.chunk_id = "c1" /\ c.text = TextY /\ c.created_at = <<"t", 1>>
    /\ BagCardinality(OwnershipEdges(db, "c1")) = 1


(***************************************************************************)
(* The Graph record after create_graph.                                    *)
(***************************************************************************)
\* C35: a store call other than delete_graph (create_graph for another graph, upsert_chunk,
\* upsert_entities, link_mentions, upsert_relations, get_graph_data) leaves every Graph record
\* that existed before the call as it was: graph id, tenant, name, ontology and creation
\* timestamp.
C35_GraphRecordImmutable ==
    (call.op # "none" /\ call.op # "delete_graph") =>
        \A g \in pre.graphs :
            \E h \in db.graphs :
                /\ h.graph_id = g.graph_id
                /\ h.project_id = g.project_id
                /\ h.name = g.name
                /\ h.ontology_json = g.ontology_json
                /\ h.created_at = g.created_at

\* C35 witness: a finished build of at least one chunk that wrote entities and relations; its
\* Graph record still carries the build's ontology and the timestamp of create_graph.
C35_Witness ==
    /\ build.pc = "done"
    /\ call.op = "get_graph_data"
    /\ Len(db.nodes) >= 1
    /\ Len(db.rels) >= 1
    /\ db.chunks # {}
    /\ \E g \in db.graphs :
          /\ g.graph_id = build.graph_id
          /\ g.ontology_json = OntologyJson(build.ontology)
          /\ g.created_at = <<"t", 1>>


(***************************************************************************)
(* LLMClient.chat_json  (backend/app/utils/llm_client.py).                 *)
(*                                                                         *)
(* A response text is a sequence of characters over a small JSON: the      *)
(* object {}, the number 1, arrays of at most one value, strings without   *)
(* escapes, spaces around values; "w" is a character of prose.             *)
(***************************************************************************)
\* chat raised (the request failed) instead of returning a text.
ApiError == <<"<APIError>">>

\* str.find and str.rfind of one character, 1-based; 0 where Python gives -1.
Find(s, ch) ==
    IF \E i \in 1..Len(s) : s[i] = ch THEN CHOOSE i \in 1..Len(s) : s[i] = ch /\ \A j \in 1..(i - 1) : s[j] # ch
    ELSE 0

RFind(s, ch) ==
    IF \E i \in 1..Len(s) : s[i] = ch THEN CHOOSE i \in 1..Len(s) : s[i] = ch /\ \A j \in (i + 1)..Len(s) : s[j] # ch
    ELSE 0

StartsEnds(s, a, b) == s # <<>> /\ s[1] = a /\ s[Len(s)] = b

\* _extract_json_object: None for no text; the stripped text when it is bracketed as an object
\* or an array; else the span from the first "{" to the last "}", else from the first "[" to
\* the last "]", else None.
extract_json_object(text) ==
    IF text = None \/ text = EmptyStr THEN None
    ELSE LET s == Strip(text)
         IN  IF StartsEnds(s, "{", "}") \/ StartsEnds(s, "[", "]") THEN s
             ELSE IF Find(s, "{") # 0 /\ RFind(s, "}") # 0 /\ RFind(s, "}") > Find(s, "{")
                  THEN SubSeq(s, Find(s, "{"), RFind(s, "}"))
             ELSE IF Find(s, "[") # 0 /\ RFind(s, "]") # 0 /\ RFind(s, "]") > Find(s, "[")
                  THEN SubSeq(s, Find(s, "["), RFind(s, "]"))
             ELSE None

JsonError == <<"error", <<>>>>

\* json.loads: <<type of the parsed value, content of a parsed string>>, or JsonError where
\* json.loads raises (None and ApiError are no text at all).
RECURSIVE json_loads(_)
json_loads(text) ==
    LET t == Strip(text)
        inner == Strip(SubSeq(t, 2, Len(t) - 1))
    IN  IF t = <<"1">> THEN <<"int", <<>>>>
        ELSE IF Len(t) >= 2 /\ StartsEnds(t, "{", "}")
             THEN IF inner = <<>> THEN <<"dict", <<>>>> ELSE JsonError
        ELSE IF Len(t) >= 2 /\ StartsEnds(t, "[", "]")
             THEN IF inner = <<>> \/ json_loads(inner) # JsonError THEN <<"list", <<>>>> ELSE JsonError
        ELSE IF Len(t) >= 2 /\ StartsEnds(t, "\"", "\"")
             THEN IF Find(SubSeq(t, 2, Len(t) - 1), "\"") = 0
                  THEN <<"str", SubSeq(t, 2, Len(t) - 1)>> ELSE JsonError
        ELSE JsonError

ChatReturn(parsed, requests) == [raised |-> FALSE, value |-> parsed, requests |-> requests]
ChatRaise(requests) == [raised |-> TRUE, value |-> JsonError, requests |-> requests]

\* chat_json without the final isinstance(parsed, dict) test.
chat_json_unchecked(response, response2) ==
    IF response = ApiError THEN ChatRaise(1)
    ELSE LET parsed == json_loads(response)
             maybe1 == extract_json_object(parsed[2])
         IN  IF parsed[1] = "dict" THEN ChatReturn(parsed, 1)
             ELSE IF parsed[1] = "str" /\ maybe1 # None /\ json_loads(maybe1)[1] = "dict"
                  THEN ChatReturn(json_loads(maybe1), 1)
             ELSE IF response2 = ApiError THEN ChatRaise(2)
             ELSE LET maybe == extract_json_object(response2)
                  IN  IF maybe = None THEN ChatRaise(2)
                      ELSE IF json_loads(maybe) = JsonError THEN ChatRaise(2)
                      ELSE ChatReturn(json_loads(maybe), 2)

\* chat_json on the texts the two requests would return.  The first request is outside the
\* try block: its error is raised.  A first text that json.loads rejects, or parses into
\* anything but an object (or a string holding one), leads to the second request; the second
\* text must hold a bracketed span that parses into an object, or the call raises.
chat_json(response, response2) ==
    IF response = ApiError THEN ChatRaise(1)
    ELSE LET parsed == json_loads(response)
             maybe1 == extract_json_object(parsed[2])
         IN  IF parsed[1] = "dict" THEN ChatReturn(parsed, 1)
             ELSE IF parsed[1] = "str" /\ maybe1 # None /\ json_loads(maybe1)[1] = "dict"
                  THEN ChatReturn(json_loads(maybe1), 1)
             ELSE IF response2 = ApiError THEN ChatRaise(2)
             ELSE LET maybe == extract_json_object(response2)
                  IN  IF maybe = None THEN ChatRaise(2)
                      ELSE IF json_loads(maybe) = JsonError THEN ChatRaise(2)
                      ELSE IF json_loads(maybe)[1] # "dict" THEN ChatRaise(2)
                      ELSE ChatReturn(json_loads(maybe), 2)

\* What a chat request can give: objects bare, padded, in prose, in a JSON string; arrays,
\* numbers and strings; prose; broken JSON; no content; an error.
ChatResponses ==
    {<<"{", "}">>, <<" ", "{", " ", "}", " ">>, <<"w", "{", "}", "w">>,
     <<"\"", "{", "}", "\"">>, <<"\"", "w", "{", "}", "\"">>, <<"\"", "w", "\"">>, <<"\"", "\"">>,
     <<"[", "]">>, <<"[", "{", "}", "]">>, <<"w", "[", "1", "]", "w">>, <<"1">>,
     <<"w">>, <<"{", "w", "}">>, <<"{", "}", "w", "{", "}">>, <<"}", "{">>, <<"[", "]", "{", "}">>,
     EmptyStr, None, ApiError}

ChatJson ==
    /\ \E response \in ChatResponses, response2 \in ChatResponses :
          call' = [op |-> "chat_json", args |-> <<response, response2>>,
                   ret |-> chat_json(response, response2)]
    /\ UNCHANGED <<db, fresh, pre, nops, vec, build>>

\* chat_json keeps no state between calls: every call starts from the same state.
NextChat ==
    /\ call.op = "none"
    /\ ChatJson

SpecChat == InitExtract /\ [][NextChat]_vars

\* C36: chat_json returns a JSON object or raises, and never returns anything else; it makes
\* one request or two; a first response that parses into an object is returned without a
\* second request, so a second request means the first response did not parse into an object;
\* a second response that is an error, or holds no span that parses, makes the call raise.
C36_ChatJsonObjectOrRaise ==
    call.op = "chat_json" =>
        LET response  == call.args[1]
            response2 == call.args[2]
            r         == call.ret
        IN  /\ r.raised \/ r.value[1] = "dict"
            /\ r.requests \in {1, 2}
            /\ (response # ApiError /\ json_loads(response)[1] = "dict")
                  => (~ r.raised /\ r.requests = 1)
            /\ r.requests = 2 => (response # ApiError /\ json_loads(response)[1] # "dict")
            /\ (r.requests = 2
                  /\ (response2 = ApiError
                        \/ \A i, j \in 1..Len(response2) : json_loads(SubSeq(response2, i, j)) = JsonError))
                  => r.raised

\* C36 witness: the first response is an array, the second is an object inside prose: two
\* requests and an object returned.
C36_Witness ==
    /\ call.op = "chat_json"
    /\ call.args[1] = <<"[", "]">>
    /\ call.args[2] = <<"w", "{", "}", "w">>
    /\ call.ret.requests = 2
    /\ ~ call.ret.raised
    /\ call.ret.value[1] = "dict"

\* C36: a second response that is an array of an object is parseable but no object: raised.
C36_SecondNotObject ==
    /\ call.op = "chat_json"
    /\ call.args[1] = <<"w">>
    /\ call.args[2] = <<"[", "{", "}", "]">>
    /\ call.ret.requests = 2
    /\ call.ret.raised


(***************************************************************************)
(* Termination of a build.  The build is one sequential loop over a finite *)
(* chunk list; each step is one external call, and a call that is made     *)
(* returns or raises: a step that can be taken is eventually taken.        *)
(***************************************************************************)
MaxFairChunks == 1     \* chunks the splitter returns to a build of SpecBuildFair

InitBuildFair ==
    /\ InitBuild
    /\ Len(build.texts) <= MaxFairChunks

SpecBuildFair == InitBuildFair /\ [][NextBuild]_vars /\ WF_vars(NextBuild)

\* A build that has returned for an empty chunk list: the Graph record exists, every progress
\* fraction has a denominator other than zero and the snapshot is empty.
ReturnedEmptyBuild ==
    /\ GraphExists(db, build.graph_id)
    /\ \A i \in 1..Len(build.progress) : build.progress[i][2][2] # 0
    /\ build.graph_data.graph_id = build.graph_id
    /\ build.graph_data.nodes = <<>>
    /\ build.graph_data.edges = <<>>
    /\ build.graph_data.node_count = 0
    /\ build.graph_data.edge_count = 0

C37_FullBuildReturned ==
    /\ N = MaxFairChunks
    /\ build.pc = "done"
    /\ build.graph_data.node_count > 0


(***************************************************************************)
(* Name, graph id and creation time of a node written more than once.      *)
(***************************************************************************)
\* The last entity of a batch with the identity key uuid.
LastOfIdentity(entities, uuid) ==
    entities[CHOOSE k \in 1..Len(entities) :
                /\ EntityUuid(entities[k]) = uuid
                /\ \A j \in (k + 1)..Len(entities) : EntityUuid(entities[j]) # uuid]

MaxReaderEdges == 2    \* relations written before filter_defined_entities reads the graph

\* _entity_type: the first label that is neither "Entity" nor "Node", or None.
RECURSIVE entity_type_of(_)
entity_type_of(labels) ==
    IF labels = <<>> THEN None
    ELSE IF Head(labels) \notin {EntityLabel, NodeLabel} THEN Head(labels)
    ELSE entity_type_of(Tail(labels))

\* The first loop over edges, for one filtered uuid: an edge is appended for its source, and
\* for its target when the target is not the source.
RECURSIVE RelatedEdges(_, _)
RelatedEdges(edges, u) ==
    IF edges = <<>> THEN <<>>
    ELSE LET e == Head(edges)
         IN  (IF e.source_node_uuid = u THEN <<e>> ELSE <<>>)
               \o (IF e.target_node_uuid = u /\ e.target_node_uuid # e.source_node_uuid
                   THEN <<e>> ELSE <<>>)
               \o RelatedEdges(Tail(edges), u)

\* node_lookup[uuid]: the last node of the snapshot with the uuid.
NodeLookup(nodes, uuid) ==
    nodes[CHOOSE i \in 1..Len(nodes) :
             nodes[i].uuid = uuid /\ \A j \in (i + 1)..Len(nodes) : nodes[j].uuid # uuid]

\* The second loop, for one filtered uuid: the node at the other end of each related edge,
\* where other = target if source == u else source.  The code builds the list from a Python
\* set; its members are kept here as a set.
RelatedNodes(nodes, related_edges, u) ==
    LET other(e) == IF e.source_node_uuid = u THEN e.target_node_uuid ELSE e.source_node_uuid
        rel_nodes == {o \in {other(related_edges[i]) : i \in 1..Len(related_edges)} :
                         \E i \in 1..Len(nodes) : nodes[i].uuid = o}
    IN  {NodeLookup(nodes, o) : o \in rel_nodes}

filter_defined_entities(graph_data, defined_entity_types, enrich_with_edges) ==
    LET nodes == graph_data.nodes
        edges == graph_data.edges
        typed == defined_entity_types # None /\ defined_entity_types # <<>>
        filtered_nodes == SelectSeq(nodes, LAMBDA n :
                              ~ (typed /\ entity_type_of(n.labels) \notin Range(defined_entity_types)))
        related_edges(u) == IF enrich_with_edges THEN RelatedEdges(edges, u) ELSE <<>>
        related_nodes(u) == IF enrich_with_edges THEN RelatedNodes(nodes, related_edges(u), u) ELSE {}
    IN  [entities |-> [i \in 1..Len(filtered_nodes) |->
                          [uuid          |-> filtered_nodes[i].uuid,
                           name          |-> filtered_nodes[i].name,
                           labels        |-> filtered_nodes[i].labels,
                           summary       |-> filtered_nodes[i].summary,
                           attributes    |-> filtered_nodes[i].attributes,
                           related_edges |-> related_edges(filtered_nodes[i].uuid),
                           related_nodes |-> related_nodes(filtered_nodes[i].uuid)]],
         entity_types   |-> {entity_type_of(nodes[i].labels) : i \in 1..Len(nodes)} \ {None},
         total_count    |-> Len(nodes),
         filtered_count |-> Len(filtered_nodes)]

\* A of type T and B of type U in gA, C of type T in gB.
ReaderEntities ==
    <<LocalEntity(P, "gA", NameA, TypeT, SummaryS, None),
      LocalEntity(P, "gA", NameB, TypeU, SummaryS, None),
      LocalEntity(P, "gB", NameC, TypeT, SummaryS, None)>>

\* A -> B, B -> A, A -> A in gA and C -> C in gB.
ReaderRelations ==
    LET a == EntityUuid(ReaderEntities[1])
        b == EntityUuid(ReaderEntities[2])
        c == EntityUuid(ReaderEntities[3])
    IN  {LocalRelation(P, "gA", a, b, RelName, FactF, EmptyStr),
         LocalRelation(P, "gA", b, a, RelName, FactF, EmptyStr),
         LocalRelation(P, "gA", a, a, RelName, FactF, EmptyStr),
         LocalRelation(P, "gB", c, c, RelName, FactF, EmptyStr)}

InitReader ==
    /\ db \in {upsert_relations(
                  upsert_entities(
                      create_graph(create_graph(EmptyDb, "gA", P, <<"n">>, EmptyOntology, <<"t", 1>>),
                                   "gB", P, <<"n">>, EmptyOntology, <<"t", 2>>),
                      ReaderEntities, <<"t", 3>>),
                  rs, 0, <<"t", 4>>) : rs \in SeqUpTo(ReaderRelations, MaxReaderEdges)}
    /\ fresh = [graph_ids |-> {"gA", "gB"}, rels |-> MaxReaderEdges]
    /\ pre = EmptyDb
    /\ call = [op |-> "none", args |-> <<>>, ret |-> None]
    /\ nops = 4
    /\ vec = NoVectors("none")
    /\ build = IdleBuild(P, EmptyOntology, <<>>)

FilterDefinedEntities ==
    \E g \in GraphIds, types \in {None, <<>>, <<TypeT>>, <<TypeU>>}, enrich \in BOOLEAN :
        ToolCall("filter_defined_entities", <<g, types, enrich>>,
                 filter_defined_entities(get_graph_data(db, g), types, enrich))

\* The reader writes nothing: every call reads the store as it was built.
NextReader ==
    /\ call.op = "none"
    /\ FilterDefinedEntities

SpecReader == InitReader /\ [][NextReader]_vars

\* C39: in the result of filter_defined_entities with edge enrichment no entity is among its
\* own related_nodes, and no edge is twice in one entity's related_edges.
C39_NoSelfNoDuplicate ==
    (call.op = "filter_defined_entities" /\ call.args[3]) =>
        \A k \in 1..Len(call.ret.entities) :
            LET entity == call.ret.entities[k]
            IN  /\ \A n \in entity.related_nodes : n.uuid # entity.uuid
                /\ \A i, j \in 1..Len(entity.related_edges) :
                      entity.related_edges[i] = entity.related_edges[j] => i = j

\* C39: the part of the claim that holds: no edge is twice in one entity's related_edges,
\* and an entity without a self-referencing relation is not among its own related_nodes.
C39_HoldsWithoutSelfLoops ==
    (call.op = "filter_defined_entities" /\ call.args[3]) =>
        \A k \in 1..Len(call.ret.entities) :
            LET entity == call.ret.entities[k]
                looped == \E i \in 1..Len(entity.related_edges) :
                              /\ entity.related_edges[i].source_node_uuid = entity.uuid
                              /\ entity.related_edges[i].target_node_uuid = entity.uuid
            IN  /\ ~ looped => \A n \in entity.related_nodes : n.uuid # entity.uuid
                /\ \A i, j \in 1..Len(entity.related_edges) :
                      entity.related_edges[i] = entity.related_edges[j] => i = j

\* C39: A has a relation to itself and one to B; A is returned among its own related_nodes.
C39_SelfLoopState ==
    /\ call.op = "filter_defined_entities"
    /\ call.args[3]
    /\ \E k \in 1..Len(call.ret.entities) :
          LET entity == call.ret.entities[k]
          IN  /\ entity.name = NameA
              /\ Len(entity.related_edges) = 2
              /\ \E n \in entity.related_nodes : n.uuid = entity.uuid
              /\ \E n \in entity.related_nodes : n.uuid # entity.uuid

====
